---------------------------- MODULE Spec2Model ----------------------------
(***************************************************************************)
(* A model of dgstools: the shared spreadsheet reader (spreadsheet.py) and *)
(* the TA-assignment pipeline (process-ta-assignments.py).                 *)
(*                                                                         *)
(* Python values are tagged records: None, a string (a sequence of         *)
(* one-character strings), an integer, or a list of values.  A dict is a   *)
(* function from field names to values.  An exception is a record with     *)
(* the tag "error".                                                        *)
(*                                                                         *)
(* The module holds several specifications, one per part of the program:   *)
(*   SpecClean  clean_up on one entry                                      *)
(*   SpecRead   read_spreadsheet_dictionary on a parsed CSV file           *)
(*   SpecInput  read_roster or read_slots on an input file                 *)
(*   SpecIndex  index_roster on a roster table                             *)
(*   Spec       process_database followed by report_slots_by_ta            *)
(***************************************************************************)
EXTENDS Integers, Sequences, FiniteSets, TLC

VARIABLES
    pc,               \* position of the script
    entry,            \* clean_up: argument entry
    replace_newlines, \* clean_up / read_spreadsheet_dictionary: argument
    cleaned,          \* clean_up: returned value
    csv_rows,         \* rows csv parses from the input file, first line included
    skip,             \* read_spreadsheet_dictionary: argument skip
    restval,          \* read_spreadsheet_dictionary: argument restval
    data,             \* read_spreadsheet_dictionary: returned list of dicts
    roster_table,     \* read_roster result / process_database argument
    slots_table,      \* read_slots result / process_database argument
    db,               \* process_database result (or the exception raised)
    mode,             \* report_slots_by_ta: argument mode
    report,           \* report_slots_by_ta: lines written (or the exception)
    args              \* arguments of the report of the student database

vars == <<pc, entry, replace_newlines, cleaned, csv_rows, skip, restval, data,
          roster_table, slots_table, db, mode, report, args>>

-----------------------------------------------------------------------------
(* Python values *)

None == [t |-> "none"]
Str(s) == [t |-> "str", s |-> s]
IntVal(n) == [t |-> "int", n |-> n]
BoolVal(b) == [t |-> "bool", b |-> b]
List(l) == [t |-> "list", l |-> l]
Dict(d) == [t |-> "dict", d |-> d]
Error(kind, where) == [t |-> "error", kind |-> kind, where |-> where]

IsNone(v) == v.t = "none"
IsStr(v) == v.t = "str"
IsInt(v) == v.t = "int"
IsList(v) == v.t = "list"
IsError(v) == v.t = "error"

\* the value a variable holds before the script has assigned it
Unset == [t |-> "unset"]

-----------------------------------------------------------------------------
(* Bounds of the model *)

\* longest cell handed to clean_up
MaxEntryLen == 5

\* all sequences over S of length at most n
SeqsUpTo(S, n) == UNION {[1..k -> S] : k \in 0..n}

-----------------------------------------------------------------------------
(* str methods used by the scripts *)

\* characters str.strip() removes
Whitespace == {" ", "\n", "\t"}

RECURSIVE LStrip(_)
LStrip(s) ==
    IF s # <<>> /\ Head(s) \in Whitespace THEN LStrip(Tail(s)) ELSE s

RECURSIVE RStrip(_)
RStrip(s) ==
    IF s # <<>> /\ s[Len(s)] \in Whitespace
    THEN RStrip(SubSeq(s, 1, Len(s) - 1)) ELSE s

\* s.strip()
Strip(s) == RStrip(LStrip(s))

\* s.replace(c, new) for a one-character c
RECURSIVE Replace(_, _, _)
Replace(s, c, new) ==
    IF s = <<>> THEN <<>>
    ELSE (IF Head(s) = c THEN new ELSE <<Head(s)>>) \o Replace(Tail(s), c, new)

\* the marker written for an internal newline
NewlineMarker == <<" ", "|", " ">>

-----------------------------------------------------------------------------
(* spreadsheet.clean_up *)

\* mutant: only trailing whitespace is stripped
clean_up_rstrip_only(e, repl) ==
    IF IsNone(e) THEN None
    ELSE IF IsList(e) THEN e
    ELSE Str(IF repl THEN Replace(RStrip(e.s), "\n", NewlineMarker)
                     ELSE RStrip(e.s))

RECURSIVE clean_up(_, _)
clean_up(e, repl) ==
    IF IsNone(e) THEN
        \* case: empty field, read as None
        None
    ELSE IF IsList(e) THEN
        \* list(map(clean_up,entry)): replace_newlines takes its default
        List([i \in DOMAIN e.l |-> clean_up(e.l[i], TRUE)])
    ELSE
        LET stripped == Strip(e.s)
        IN  Str(IF repl THEN Replace(stripped, "\n", NewlineMarker)
                        ELSE stripped)

-----------------------------------------------------------------------------
(* SpecClean: clean_up applied to one entry *)

EntryChars == {" ", "\n", "a"}

Entries ==
    {None}
    \cup {Str(s) : s \in SeqsUpTo(EntryChars, MaxEntryLen)}
    \cup {List(<<Str(s), Str(<<"a", "\n", "a">>)>>) : s \in SeqsUpTo(EntryChars, 2)}

InitClean ==
    /\ pc = "clean_up"
    /\ entry \in Entries
    /\ replace_newlines \in BOOLEAN
    /\ cleaned = Unset
    /\ csv_rows = <<>> /\ skip = FALSE /\ restval = Unset /\ data = Unset
    /\ roster_table = Unset /\ slots_table = Unset
    /\ db = Unset /\ mode = "" /\ report = Unset /\ args = Unset

CleanUp ==
    /\ pc = "clean_up"
    /\ cleaned' = clean_up(entry, replace_newlines)
    /\ pc' = "done"
    /\ UNCHANGED <<args, entry, replace_newlines, csv_rows, skip, restval, data,
                   roster_table, slots_table, db, mode, report>>

NextClean == CleanUp

SpecClean == InitClean /\ [][NextClean]_vars

\* the characters of s between its first and its last non-whitespace one
Core(s) ==
    LET idx == {i \in 1..Len(s) : s[i] \notin Whitespace}
    IN  IF idx = {} THEN <<>>
        ELSE SubSeq(s, CHOOSE i \in idx : \A j \in idx : i <= j,
                       CHOOSE i \in idx : \A j \in idx : i >= j)

\* s with the marker in the place of every newline, built from the right
RECURSIVE NewlinesMarked(_)
NewlinesMarked(s) ==
    IF s = <<>> THEN <<>>
    ELSE NewlinesMarked(SubSeq(s, 1, Len(s) - 1))
         \o (IF s[Len(s)] = "\n" THEN NewlineMarker ELSE <<s[Len(s)]>>)

Contains(s, c) == \E i \in 1..Len(s) : s[i] = c

\* C5 (as claimed): clean_up converts an empty field that was read as None
\* into the null string.
C5_NoneBecomesNullString ==
    (pc = "done" /\ IsNone(entry)) => cleaned = Str(<<>>)

\* C6: for a string entry clean_up returns the entry without its leading and
\* trailing whitespace; with replace_newlines every internal newline is
\* replaced by " | " and the result holds no newline; without it the internal
\* newlines are kept.
C6_StripAndMarkNewlines ==
    (pc = "done" /\ IsStr(entry)) =>
        /\ IsStr(cleaned)
        /\ replace_newlines =>
              /\ cleaned.s = NewlinesMarked(Core(entry.s))
              /\ ~Contains(cleaned.s, "\n")
        /\ ~replace_newlines => cleaned.s = Core(entry.s)

C6_Witness ==
    /\ pc = "done" /\ IsStr(entry) /\ replace_newlines
    /\ Len(entry.s) >= 5
    /\ entry.s[1] \in Whitespace /\ entry.s[Len(entry.s)] \in Whitespace
    /\ Contains(Core(entry.s), "\n")
    /\ Contains(cleaned.s, "|")

-----------------------------------------------------------------------------
(* csv.DictReader and spreadsheet.read_spreadsheet_dictionary              *)
(*                                                                         *)
(* The input file is the sequence of rows csv.reader parses from it, each  *)
(* a sequence of cells (strings); a blank line parses to the empty row.    *)
(* The first row is the one on the first line of the file.  The character  *)
(* normalisation of read_spreadsheet_clean_stream (unidecode, removal of   *)
(* NUL) is the identity on the ASCII cells of the model.                   *)

\* most rows in an input file
MaxFileRows == 2

\* DictReader's restkey, left at its default None: the key of surplus cells
restkey == "None"

Range(f) == {f[i] : i \in DOMAIN f}

IndexOf(seq, x) == CHOOSE i \in DOMAIN seq : seq[i] = x

\* infile.readline() under skip: the first line is dropped
SkipFirstLine(rows, skp) ==
    IF skp /\ rows # <<>> THEN Tail(rows) ELSE rows

\* the dict DictReader.__next__ makes of one non-empty row
DictReaderRow(fieldnames, row, rval) ==
    LET lf == Len(fieldnames)
        lr == Len(row)
        keys == Range(fieldnames) \cup (IF lf < lr THEN {restkey} ELSE {})
    IN  [k \in keys |->
            IF k \notin Range(fieldnames)
            THEN List([i \in 1..(lr - lf) |-> Str(row[lf + i])])
            ELSE IF IndexOf(fieldnames, k) <= lr
                 THEN Str(row[IndexOf(fieldnames, k)])
                 ELSE rval]

\* the rows DictReader yields: empty rows are passed over
RECURSIVE DictReader(_, _, _)
DictReader(rows, fieldnames, rval) ==
    IF rows = <<>> THEN <<>>
    ELSE IF Head(rows) = <<>> THEN DictReader(Tail(rows), fieldnames, rval)
    ELSE <<DictReaderRow(fieldnames, Head(rows), rval)>>
         \o DictReader(Tail(rows), fieldnames, rval)

\* mutant: the first line is read as data whatever skip says
read_spreadsheet_dictionary_noskip(rows, fieldnames, skp, repl, rval) ==
    LET entries == DictReader(rows, fieldnames, rval)
    IN  [n \in DOMAIN entries |->
            [field \in DOMAIN entries[n] |-> clean_up(entries[n][field], repl)]]

read_spreadsheet_dictionary(rows, fieldnames, skp, repl, rval) ==
    LET entries == DictReader(SkipFirstLine(rows, skp), fieldnames, rval)
    IN  [n \in DOMAIN entries |->
            [field \in DOMAIN entries[n] |-> clean_up(entries[n][field], repl)]]

-----------------------------------------------------------------------------
(* SpecRead: read_spreadsheet_dictionary applied to one file *)

\* the field names declared by the caller of the model
ReadFieldNames == <<"name", "notes">>

CellValues == {<<>>, <<" ", "a", "\n", "b">>}

\* rows of no cell (a blank line) up to one cell more than the declared fields
RowsOver(cells, nfields) == SeqsUpTo(cells, nfields + 1)

InitRead ==
    /\ pc = "read_spreadsheet_dictionary"
    /\ csv_rows \in SeqsUpTo(RowsOver(CellValues, Len(ReadFieldNames)), MaxFileRows)
    /\ skip \in BOOLEAN
    /\ replace_newlines \in BOOLEAN
    /\ restval \in {None, Str(<<>>), Str(<<" ">>)}
    /\ data = Unset
    /\ entry = Unset /\ cleaned = Unset
    /\ roster_table = Unset /\ slots_table = Unset
    /\ db = Unset /\ mode = "" /\ report = Unset /\ args = Unset

ReadSpreadsheetDictionary ==
    /\ pc = "read_spreadsheet_dictionary"
    /\ data' = read_spreadsheet_dictionary(csv_rows, ReadFieldNames, skip,
                                           replace_newlines, restval)
    /\ pc' = "done"
    /\ UNCHANGED <<args, entry, replace_newlines, cleaned, csv_rows, skip, restval,
                   roster_table, slots_table, db, mode, report>>

NextRead == ReadSpreadsheetDictionary

SpecRead == InitRead /\ [][NextRead]_vars

\* the data rows of the file: every row after the skipped first line
DataRows == IF skip /\ csv_rows # <<>> THEN Tail(csv_rows) ELSE csv_rows

NonBlank(row) == row # <<>>

C4_WitnessShortRow ==
    /\ pc = "done" /\ skip /\ IsNone(restval)
    /\ Len(data) = 1
    /\ \E f \in DOMAIN data[1] : IsNone(data[1][f])

-----------------------------------------------------------------------------
(* More str and int operations *)

\* ord(c) of the characters the model uses
Ord(c) ==
    CASE c = "\n" -> 10  [] c = " " -> 32  [] c = "*" -> 42  [] c = "," -> 44
      [] c = "-" -> 45
      [] c = "C" -> 67   [] c = "E" -> 69  [] c = "G" -> 71
      [] c = "c" -> 99   [] c = "d" -> 100 [] c = "f" -> 102 [] c = "r" -> 114
      [] c = "." -> 46   [] c = "/" -> 47
      [] c = "0" -> 48   [] c = "1" -> 49  [] c = "2" -> 50  [] c = "3" -> 51
      [] c = "4" -> 52   [] c = "5" -> 53  [] c = "6" -> 54  [] c = "7" -> 55
      [] c = "8" -> 56   [] c = "9" -> 57  [] c = ":" -> 58  [] c = "?" -> 63
      [] c = "A" -> 65   [] c = "B" -> 66  [] c = "D" -> 68  [] c = "F" -> 70
      [] c = "H" -> 72   [] c = "M" -> 77  [] c = "N" -> 78  [] c = "P" -> 80
      [] c = "Q" -> 81   [] c = "R" -> 82  [] c = "S" -> 83  [] c = "T" -> 84
      [] c = "W" -> 87   [] c = "X" -> 88  [] c = "Y" -> 89
      [] c = "a" -> 97   [] c = "b" -> 98  [] c = "e" -> 101 [] c = "n" -> 110
      [] c = "o" -> 111  [] c = "x" -> 120 [] c = "y" -> 121 [] c = "z" -> 122
      [] c = "|" -> 124

\* a <= b for Python strings: lexicographic by code point
RECURSIVE StrLeq(_, _)
StrLeq(a, b) ==
    IF a = <<>> THEN TRUE
    ELSE IF b = <<>> THEN FALSE
    ELSE IF Head(a) = Head(b) THEN StrLeq(Tail(a), Tail(b))
    ELSE Ord(Head(a)) < Ord(Head(b))

\* s.split(sep) for a one-character sep
RECURSIVE Split(_, _)
Split(s, sep) ==
    IF \A i \in 1..Len(s) : s[i] # sep THEN <<s>>
    ELSE LET i == CHOOSE i \in 1..Len(s) :
                      s[i] = sep /\ \A j \in 1..(i - 1) : s[j] # sep
         IN  <<SubSeq(s, 1, i - 1)>> \o Split(SubSeq(s, i + 1, Len(s)), sep)

\* sep.join(parts)
RECURSIVE Join(_, _)
Join(parts, sep) ==
    IF parts = <<>> THEN <<>>
    ELSE IF Len(parts) = 1 THEN parts[1]
    ELSE parts[1] \o sep \o Join(Tail(parts), sep)

\* mutant: a single terminal "*" is removed
RStripStar_once(s) ==
    IF s # <<>> /\ s[Len(s)] = "*" THEN SubSeq(s, 1, Len(s) - 1) ELSE s

\* s.rstrip("*")
RECURSIVE RStripStar(_)
RStripStar(s) ==
    IF s # <<>> /\ s[Len(s)] = "*"
    THEN RStripStar(SubSeq(s, 1, Len(s) - 1)) ELSE s

Digits == {"0", "1", "2", "3", "4", "5", "6", "7", "8", "9"}

RECURSIVE DigitsValue(_)
DigitsValue(s) ==
    IF s = <<>> THEN 0
    ELSE 10 * DigitsValue(SubSeq(s, 1, Len(s) - 1)) + (Ord(s[Len(s)]) - 48)

\* int(v): the integer of a string of decimal digits, TypeError on None,
\* ValueError on any other string of the model (which holds no sign,
\* underscore or surrounding whitespace once cleaned)
ParseInt(v) ==
    IF IsInt(v) THEN v
    ELSE IF ~IsStr(v) THEN Error("TypeError", "int")
    ELSE IF v.s # <<>> /\ \A i \in 1..Len(v.s) : v.s[i] \in Digits
         THEN IntVal(DigitsValue(v.s))
         ELSE Error("ValueError", "int")

\* the text "{}".format(v) writes for a string or None
FormatValue(v) ==
    IF IsNone(v) THEN <<"N", "o", "n", "e">> ELSE v.s

\* whether x, a dict or an exception, is an exception
Raised(x) == "t" \in DOMAIN x /\ x.t = "error"

\* the first element of seq that is an exception, if any
FirstError(seq) ==
    LET bad == {i \in DOMAIN seq : Raised(seq[i])}
    IN  seq[CHOOSE i \in bad : \A j \in bad : i <= j]

HasError(seq) == \E i \in DOMAIN seq : Raised(seq[i])

-----------------------------------------------------------------------------
(* process-ta-assignments.py: global configuration *)

EmptyStr == Str(<<>>)

\* ta_exclusion_list = [None,"","?","X","."]
ta_exclusion_list == {None, EmptyStr, Str(<<"?">>), Str(<<"X">>), Str(<<".">>)}

\* ta_suppression_list = ["."]
ta_suppression_list == {Str(<<".">>)}

course_none_threshold == <<"P", "H", "Y", "S", "9", "9", "9", "0", "0">>
course_none_text == <<"P", "H", "Y", "S", "X", "X", "X", "X", "X">>

\* mutant: the threshold course itself is replaced by the placeholder
course_or_none_below_only(course) ==
    IF course # course_none_threshold /\ StrLeq(course, course_none_threshold)
    THEN course ELSE course_none_text

course_or_none(course) ==
    IF StrLeq(course, course_none_threshold) THEN course ELSE course_none_text

-----------------------------------------------------------------------------
(* process-ta-assignments.py: special handling of registrar input fields *)

DayChars == {"M", "T", "W", "R", "F"} \cup Whitespace

\* length of the longest prefix of s from position i on whose characters
\* all satisfy the membership test (in S when inside, outside S otherwise)
RECURSIVE RunLen(_, _, _, _)
RunLen(s, i, S, inside) ==
    IF i <= Len(s) /\ ((s[i] \in S) = inside)
    THEN 1 + RunLen(s, i + 1, S, inside) ELSE 0

IsDash(s, i) ==
    i + 2 <= Len(s) /\ s[i] = " " /\ s[i + 1] = "-" /\ s[i + 2] = " "

\* re.match of (?P<days>[MTWRF\s]+) - (?P<time>[\S]+ - [\S]+) at the start
\* of s: the days run must end in the blank that opens " - ", and each \S+
\* is a whole run of non-blank characters; text after the match is ignored
TimeslotMatch(s) ==
    LET r  == RunLen(s, 1, DayChars, TRUE)
        a  == RunLen(s, r + 3, Whitespace, FALSE)
        b  == RunLen(s, r + 3 + a + 3, Whitespace, FALSE)
        ok == /\ r >= 2 /\ IsDash(s, r)
              /\ a >= 1 /\ IsDash(s, r + 3 + a - 1 + 1)
              /\ b >= 1
    IN  [ok   |-> ok,
         days |-> IF ok THEN SubSeq(s, 1, r - 1) ELSE <<>>,
         time |-> IF ok THEN SubSeq(s, r + 3, r + 3 + a + 3 + b - 1) ELSE <<>>]

compress_registrar_timeslot_single(timeslot) ==
    LET cleaned_slot == Strip(timeslot)
        match == TimeslotMatch(cleaned_slot)
    IN  IF cleaned_slot = <<"T", "B", "D">> THEN cleaned_slot
        ELSE IF ~match.ok THEN cleaned_slot
        ELSE Replace(match.days, " ", <<>>) \o <<" ">>
             \o Replace(match.time, " ", <<>>)

compress_registrar_timeslot(timeslot) ==
    LET timeslot_list == Split(timeslot, "/")
        short_form_list == [i \in DOMAIN timeslot_list |->
                               compress_registrar_timeslot_single(timeslot_list[i])]
    IN  Join(short_form_list, <<" ", "/", " ">>)

-----------------------------------------------------------------------------
(* process-ta-assignments.py: input filters *)

RosterFieldNames ==
    <<"last", "first", "year", "netid", "advisor", "area", "ta_ra_status",
      "quota", "notes">>

SlotsFieldNames ==
    <<"course_section", "title", "credits",
      "enrollment_status", "enrollment_max", "enrollment_open",
      "crosslisted", "crn", "instructor", "when", "start_date", "end_date",
      "where",
      "section_and_when_relevant",
      "exams", "role", "hours",
      "ta", "conflicts", "notes", "history">>

\* a dict with one more key
With(record, key, value) == (key :> value) @@ record

HasLast(record) == record["last"] # EmptyStr

\* the loop body of read_roster on one record (an exception, if int raises)
RosterRecord(record) ==
    LET quota == ParseInt(record["quota"])
    IN  IF IsError(quota) THEN quota
        ELSE LET converted == [record EXCEPT !["quota"] = quota]
             IN  With(converted, "key",
                      Str(FormatValue(converted["last"]) \o <<":">>
                          \o FormatValue(converted["first"])))

\* mutant: the quota is converted before the rows without a name are dropped
read_roster_convert_first(rows) ==
    LET table == read_spreadsheet_dictionary(rows, RosterFieldNames,
                                             FALSE, TRUE, None)
        processed == [n \in DOMAIN table |-> RosterRecord(table[n])]
    IN  IF HasError(processed) THEN FirstError(processed)
        ELSE List(SelectSeq(processed, HasLast))

read_roster(rows) ==
    LET table == SelectSeq(read_spreadsheet_dictionary(rows, RosterFieldNames,
                                                       FALSE, TRUE, None),
                           HasLast)
        processed == [n \in DOMAIN table |-> RosterRecord(table[n])]
    IN  IF HasError(processed) THEN FirstError(processed) ELSE List(processed)

HasCourseSection(record) == record["course_section"] # EmptyStr

\* mutant: a blank hours cell is left as it was read
SlotHours_keep_blank(hours) ==
    IF hours \in {None, EmptyStr} THEN hours ELSE ParseInt(hours)

\* the hours of a slot record: 0 for a blank cell, else int(cell)
SlotHours(hours) ==
    IF hours \in {None, EmptyStr} THEN IntVal(0) ELSE ParseInt(hours)

\* the loop body of read_slots on one record (an exception, if int raises)
SlotRecord(record) ==
    LET course_section_parts == Split(record["course_section"].s, "-")
        course == course_section_parts[1]
        section == RStripStar(IF Len(course_section_parts) > 1
                              THEN course_section_parts[2] ELSE <<>>)
        relevant == (record["section_and_when_relevant"] = Str(<<"X">>))
        when_or_exams ==
            IF relevant THEN Str(compress_registrar_timeslot(record["when"].s))
            ELSE IF record["exams"] # EmptyStr THEN record["exams"]
            ELSE EmptyStr
        hours == SlotHours(record["hours"])
        derived ==
            [k \in {"course", "course_or_none", "section", "section_or_none",
                    "when_or_exams"} |->
                CASE k = "course" -> Str(course)
                  [] k = "course_or_none" -> Str(course_or_none(course))
                  [] k = "section" -> Str(section)
                  [] k = "section_or_none" -> Str(IF relevant THEN section ELSE <<>>)
                  [] k = "when_or_exams" -> when_or_exams]
    IN  IF IsError(hours) THEN hours
        ELSE derived @@
             [record EXCEPT
                 !["section_and_when_relevant"] = BoolVal(relevant),
                 !["instructor"] = Str(Replace(record["instructor"].s, "/", <<"&">>)),
                 !["hours"] = hours]

read_slots(rows) ==
    LET table == SelectSeq(read_spreadsheet_dictionary(rows, SlotsFieldNames,
                                                       TRUE, TRUE, EmptyStr),
                           HasCourseSection)
        processed == [n \in DOMAIN table |-> SlotRecord(table[n])]
    IN  IF HasError(processed) THEN FirstError(processed) ELSE List(processed)

-----------------------------------------------------------------------------
(* SpecInput: read_roster or read_slots applied to one input file.         *)
(* The two readers share no state, so a behaviour runs one of them.  A row *)
(* is a full spreadsheet line cut after some column: cut short of the      *)
(* quota or hours column, complete, or with one surplus cell.              *)

LastCells == {<<>>, <<" ">>, <<"a">>}
QuotaCells == {<<>>, <<"2">>, <<"x">>}

RosterLine(last, quota) ==
    <<last, <<"x">>, <<"1">>, <<"n">>, <<"b">>, <<"e">>, <<"T", "A">>, quota,
      <<>>, <<"z">>>>

RosterRows ==
    {<<>>}
    \cup {SubSeq(RosterLine(l, <<"2">>), 1, n) : l \in LastCells, n \in {2, 10}}
    \cup {SubSeq(RosterLine(l, q), 1, 9) : l \in LastCells, q \in QuotaCells}

CourseSectionCells ==
    {<<>>, <<" ">>, <<"P", "1", "-", "0", "1", "*">>, <<"-", "0", "1">>}
HoursCells == {<<>>, <<" ">>, <<"1", "2">>, <<"x">>}
RelevantCells == {<<>>, <<"X">>}

SlotsLine(course_section, relevant, hours) ==
    <<course_section, <<"a">>, <<"3">>, <<"A">>, <<"9">>, <<"1">>, <<>>,
      <<"1">>, <<"a", "/", "b">>,
      <<"M", " ", "W", " ", "-", " ", "1", " ", "-", " ", "2">>,
      <<>>, <<>>, <<>>, relevant, <<"e">>, <<"b">>, hours, <<"a">>, <<>>,
      <<>>, <<>>, <<"z">>>>

SlotsRows ==
    {<<>>}
    \cup {SubSeq(SlotsLine(c, <<"X">>, <<"1", "2">>), 1, n) :
             c \in CourseSectionCells, n \in {16, 22}}
    \cup {SubSeq(SlotsLine(c, r, h), 1, 21) :
             c \in CourseSectionCells, r \in RelevantCells, h \in HoursCells}

\* ta-assignments.csv opens with its line of column headers
SlotsHeader == [i \in 1..21 |-> <<"H">>]

InitInput ==
    /\ \/ /\ pc = "read_roster"
          /\ csv_rows \in SeqsUpTo(RosterRows, MaxFileRows)
       \/ /\ pc = "read_slots"
          /\ csv_rows \in {<<SlotsHeader>> \o rows :
                              rows \in SeqsUpTo(SlotsRows, MaxFileRows)}
    /\ roster_table = Unset /\ slots_table = Unset
    /\ entry = Unset /\ replace_newlines = TRUE /\ cleaned = Unset
    /\ skip = FALSE /\ restval = Unset /\ data = Unset
    /\ db = Unset /\ mode = "" /\ report = Unset /\ args = Unset

ReadRoster ==
    /\ pc = "read_roster"
    /\ roster_table' = read_roster(csv_rows)
    /\ pc' = "done"
    /\ UNCHANGED <<args, entry, replace_newlines, cleaned, csv_rows, skip, restval,
                   data, slots_table, db, mode, report>>

ReadSlots ==
    /\ pc = "read_slots"
    /\ slots_table' = read_slots(csv_rows)
    /\ pc' = "done"
    /\ UNCHANGED <<args, entry, replace_newlines, cleaned, csv_rows, skip, restval,
                   data, roster_table, db, mode, report>>

NextInput == ReadRoster \/ ReadSlots

SpecInput == InitInput /\ [][NextInput]_vars

\* the cell of a row in column i as the reader cleans it; missing when the
\* row is too short
CleanCell(row, i, missing) ==
    IF i <= Len(row) THEN Str(NewlinesMarked(Core(row[i]))) ELSE missing

FirstCellFilled(row) == row # <<>> /\ Core(row[1]) # <<>>

IsNumber(cell) == IsStr(cell) /\ cell.s # <<>> /\ \A i \in 1..Len(cell.s) : cell.s[i] \in Digits

\* the rows of the roster file with a TA last name, in input order
NamedRosterRows == SelectSeq(csv_rows, FirstCellFilled)

\* the rows of the slots file, below the header line, with a course number
\* (the cell of the column "Course - Sec"), in input order
CourseSlotsRows == SelectSeq(Tail(csv_rows), FirstCellFilled)

RosterQuotaCell(row) == CleanCell(row, 8, None)
SlotsHoursCell(row) == CleanCell(row, 17, EmptyStr)

\* the fields a reader passes through as cleaned: all but those it converts
SameCells(record, row, fieldnames, converted, missing) ==
    \A i \in DOMAIN fieldnames :
        fieldnames[i] \notin converted =>
            record[fieldnames[i]] = CleanCell(row, i, missing)

C7_WitnessSlots ==
    /\ pc = "done" /\ slots_table # Unset /\ ~IsError(slots_table)
    /\ Len(csv_rows) = 3
    /\ Len(csv_rows[2]) = 21 /\ csv_rows[2][1] = <<" ">>
    /\ csv_rows[2][17] = <<"x">>
    /\ Len(slots_table.l) = 1
    /\ slots_table.l[1]["course"] = Str(<<"P", "1">>)

\* C8: every slot record read_slots returns has an integer hours value: 0
\* when the hours cell is blank or missing, else the integer of the cell.
C8_IntegerHours ==
    (pc = "done" /\ slots_table # Unset /\ ~IsError(slots_table)) =>
        \A n \in DOMAIN slots_table.l :
            LET cell == SlotsHoursCell(CourseSlotsRows[n])
                hours == slots_table.l[n]["hours"]
            IN  /\ IsInt(hours)
                /\ cell = EmptyStr => hours.n = 0
                /\ cell # EmptyStr => hours.n = DigitsValue(cell.s)

\* a returned table with a slot cut short of the hours column, or with a
\* blank hours cell, and a slot of 12 hours
C8_Witness ==
    /\ pc = "done" /\ slots_table # Unset /\ ~IsError(slots_table)
    /\ Len(slots_table.l) = 2
    /\ \/ Len(CourseSlotsRows[1]) = 16
       \/ CourseSlotsRows[1][17] = <<" ">>
    /\ slots_table.l[1]["hours"] = IntVal(0)
    /\ slots_table.l[2]["hours"] = IntVal(12)

-----------------------------------------------------------------------------
(* process-ta-assignments.py: processing *)

\* the dict with no key
EmptyDict == [k \in {} |-> None]

\* d[key] = value
Put(d, key, value) == (key :> value) @@ d

\* a < b for Python strings
StrLess(a, b) == a # b /\ StrLeq(a, b)

\* the sorted list of a set of strings: list(set).sort()
RECURSIVE SortedStrings(_)
SortedStrings(S) ==
    IF S = {} THEN <<>>
    ELSE LET least == CHOOSE x \in S : \A y \in S : StrLeq(x.s, y.s)
         IN  <<least>> \o SortedStrings(S \ {least})

unique_courses(slots) ==
    SortedStrings({slots[n]["course"] : n \in DOMAIN slots})

\* the loop of index_roster: later records overwrite earlier entries
RECURSIVE index_key_dict(_)
index_key_dict(roster) ==
    IF roster = <<>> THEN EmptyDict
    ELSE LET record == roster[Len(roster)]
             before == index_key_dict(SubSeq(roster, 1, Len(roster) - 1))
         IN  Put(Put(before, record["last"], record["key"]),
                 record["key"], record["key"])

RECURSIVE index_ta_info(_)
index_ta_info(roster) ==
    IF roster = <<>> THEN EmptyDict
    ELSE LET record == roster[Len(roster)]
         IN  Put(index_ta_info(SubSeq(roster, 1, Len(roster) - 1)),
                 record["key"], record)

\* mutant: the first record to claim an identifier keeps it
RECURSIVE index_key_dict_first_wins(_)
index_key_dict_first_wins(roster) ==
    IF roster = <<>> THEN EmptyDict
    ELSE LET record == roster[1]
             after == index_key_dict_first_wins(Tail(roster))
         IN  Put(Put(after, record["last"], record["key"]),
                 record["key"], record["key"])

index_roster_first_wins(roster) ==
    [ta_keys |-> [n \in DOMAIN roster |-> roster[n]["key"]],
     key_dict |-> index_key_dict_first_wins(roster),
     ta_info_by_ta |-> index_ta_info(roster)]

index_roster(roster) ==
    [ta_keys |-> [n \in DOMAIN roster |-> roster[n]["key"]],
     key_dict |-> index_key_dict(roster),
     ta_info_by_ta |-> index_ta_info(roster)]

\* ValueError("Unrecognized TA identifier '{}' in entry for course '{}'")
UnrecognizedTA(record) ==
    [t |-> "error", kind |-> "ValueError", where |-> "tally_hours",
     ta |-> record["ta"], course |-> record["course"]]

\* the loop of tally_hours from the given totals on
RECURSIVE tally_loop(_, _, _)
tally_loop(slots, key_dict, hours_by_ta) ==
    IF slots = <<>> THEN Dict(hours_by_ta)
    ELSE LET record == Head(slots)
         IN  IF record["ta"] \in ta_exclusion_list
             THEN tally_loop(Tail(slots), key_dict, hours_by_ta)
             ELSE IF record["ta"] \notin DOMAIN key_dict
             THEN UnrecognizedTA(record)
             ELSE LET key == key_dict[record["ta"]]
                  IN  tally_loop(Tail(slots), key_dict,
                                 [hours_by_ta EXCEPT
                                     ![key] = @ + record["hours"].n])

\* mutant: only slots that name the TA by the canonical key are counted
RECURSIVE tally_loop_key_only(_, _, _)
tally_loop_key_only(slots, key_dict, hours_by_ta) ==
    IF slots = <<>> THEN Dict(hours_by_ta)
    ELSE LET record == Head(slots)
         IN  IF record["ta"] \in ta_exclusion_list
             THEN tally_loop_key_only(Tail(slots), key_dict, hours_by_ta)
             ELSE IF record["ta"] \notin DOMAIN key_dict
             THEN UnrecognizedTA(record)
             ELSE tally_loop_key_only(Tail(slots), key_dict,
                      IF record["ta"] \in DOMAIN hours_by_ta
                      THEN [hours_by_ta EXCEPT
                               ![record["ta"]] = @ + record["hours"].n]
                      ELSE hours_by_ta)

tally_hours_key_only(slots, ta_keys, key_dict) ==
    tally_loop_key_only(slots, key_dict, [key \in Range(ta_keys) |-> 0])

tally_hours(slots, ta_keys, key_dict) ==
    tally_loop(slots, key_dict, [key \in Range(ta_keys) |-> 0])

\* the sort key (slot["course"],slot["section"]) of one slot before another's
SlotLess(a, b) ==
    \/ StrLess(a["course"].s, b["course"].s)
    \/ /\ a["course"] = b["course"]
       /\ StrLess(a["section"].s, b["section"].s)

\* list.sort(key=...): stable, so a slot goes behind every slot not after it
RECURSIVE SortSlots(_)
SortSlots(slots) ==
    IF slots = <<>> THEN <<>>
    ELSE LET sorted == SortSlots(SubSeq(slots, 1, Len(slots) - 1))
             slot == slots[Len(slots)]
             n == Cardinality({i \in DOMAIN sorted : ~SlotLess(slot, sorted[i])})
         IN  SubSeq(sorted, 1, n) \o <<slot>> \o SubSeq(sorted, n + 1, Len(sorted))

KeyError(where) == Error("KeyError", where)

\* the accumulation loop of collect_slots_by_ta
RECURSIVE collect_loop(_, _, _)
collect_loop(slots, key_dict, slots_by_ta) ==
    IF slots = <<>> THEN Dict(slots_by_ta)
    ELSE LET slot == Head(slots)
         IN  IF slot["ta"] \in ta_exclusion_list
             THEN collect_loop(Tail(slots), key_dict, slots_by_ta)
             ELSE IF slot["ta"] \notin DOMAIN key_dict
             THEN KeyError("collect_slots_by_ta")
             ELSE collect_loop(Tail(slots), key_dict,
                               [slots_by_ta EXCEPT
                                   ![key_dict[slot["ta"]]] = Append(@, slot)])

collect_slots_by_ta(slots, ta_keys, key_dict, ta_info_by_ta) ==
    LET collected == collect_loop(slots, key_dict,
                                  [ta \in Range(ta_keys) |-> <<>>])
    IN  IF IsError(collected) THEN collected
        ELSE Dict([ta \in DOMAIN collected.d |-> SortSlots(collected.d[ta])])

collect_slots_by_course(slots, course_list) ==
    [course \in Range(course_list) |->
        SortSlots(SelectSeq(
            [n \in DOMAIN slots |->
                Put(slots[n], "course_or_none",
                    Str(course_or_none(slots[n]["course"].s)))],
            LAMBDA slot : slot["course"] = course))]

\* mutant: the slots are collected before the hours are tallied
process_database_collect_first(roster, slots) ==
    LET index == index_roster(roster)
        course_list == unique_courses(slots)
        slots_by_ta == collect_slots_by_ta(slots, index.ta_keys, index.key_dict,
                                           index.ta_info_by_ta)
        hours_by_ta == tally_hours(slots, index.ta_keys, index.key_dict)
    IN  IF IsError(slots_by_ta) THEN slots_by_ta
        ELSE IF IsError(hours_by_ta) THEN hours_by_ta
        ELSE [t |-> "db",
              ta_keys |-> index.ta_keys, key_dict |-> index.key_dict,
              ta_info_by_ta |-> index.ta_info_by_ta,
              course_list |-> course_list, hours_by_ta |-> hours_by_ta.d,
              slots_by_ta |-> slots_by_ta.d,
              slots_by_course |-> collect_slots_by_course(slots, course_list)]

process_database(roster, slots) ==
    LET index == index_roster(roster)
        course_list == unique_courses(slots)
        hours_by_ta == tally_hours(slots, index.ta_keys, index.key_dict)
        slots_by_ta == collect_slots_by_ta(slots, index.ta_keys, index.key_dict,
                                           index.ta_info_by_ta)
    IN  IF IsError(hours_by_ta) THEN hours_by_ta
        ELSE IF IsError(slots_by_ta) THEN slots_by_ta
        ELSE [t |-> "db",
              ta_keys |-> index.ta_keys, key_dict |-> index.key_dict,
              ta_info_by_ta |-> index.ta_info_by_ta,
              course_list |-> course_list, hours_by_ta |-> hours_by_ta.d,
              slots_by_ta |-> slots_by_ta.d,
              slots_by_course |-> collect_slots_by_course(slots, course_list)]

-----------------------------------------------------------------------------
(* process-ta-assignments.py: report of assignments by TA                  *)
(*                                                                         *)
(* A report is the list of the lines written, each line the record of the  *)
(* values its format string prints.                                        *)

fullname_width == 28
role_width_by_ta == 21
title_width == 25
instructor_width == 15

\* spreadsheet.truncate_string
truncate_string(s, length) ==
    SubSeq(s, 1, IF length < Len(s) THEN length ELSE Len(s))

\* "{last}, {first} ({year})".format(**ta_record)
FullName(ta_record) ==
    FormatValue(ta_record["last"]) \o <<",", " ">>
    \o FormatValue(ta_record["first"]) \o <<" ", "(">>
    \o FormatValue(ta_record["year"]) \o <<")">>

\* mutant: a TA at quota is flagged like one over quota
Marker_over_from_quota(hours, quota) ==
    IF hours = quota - 1 THEN <<".">>
    ELSE IF hours >= quota THEN <<"*", "*", "*">>
    ELSE <<>>

\* the marker of a TA line: marker = "" / if / if ... elif
Marker(hours, quota) ==
    LET first == IF hours = quota THEN <<"=">> ELSE <<>>
    IN  IF hours = quota - 1 THEN <<".">>
        ELSE IF hours > quota THEN <<"*", "*", "*">>
        ELSE first

\* mutant: a TA counts as assigned when the assigned hours are positive
Assigned_by_hours(db_, ta) == db_.hours_by_ta[ta] > 0

\* assigned = (len(slots_by_ta[ta]) > 0)
Assigned(db_, ta) == Len(db_.slots_by_ta[ta]) > 0

\* whether the loop passes over the TA (continue)
Suppressed(db_, ta, show_hours) ==
    IF show_hours
    THEN db_.ta_info_by_ta[ta]["quota"].n = 0 /\ ~Assigned(db_, ta)
    ELSE ~Assigned(db_, ta)

HeaderLine == [kind |-> "header"]
BlankLine == [kind |-> "blank"]

TaLine(db_, ta, show_hours) ==
    IF show_hours
    THEN [kind |-> "ta",
          fullname |-> FullName(db_.ta_info_by_ta[ta]),
          hours |-> db_.hours_by_ta[ta],
          quota |-> db_.ta_info_by_ta[ta]["quota"].n,
          marker |-> Marker(db_.hours_by_ta[ta],
                            db_.ta_info_by_ta[ta]["quota"].n)]
    ELSE [kind |-> "ta", fullname |-> FullName(db_.ta_info_by_ta[ta])]

SlotLine(slot) ==
    [kind |-> "slot",
     course_or_none |-> slot["course_or_none"].s,
     section_or_none |-> slot["section_or_none"].s,
     short_title |-> truncate_string(slot["title"].s, title_width),
     short_instructor |-> truncate_string(slot["instructor"].s, instructor_width),
     short_role |-> truncate_string(slot["role"].s, role_width_by_ta),
     hours |-> slot["hours"].n,
     when_or_exams |-> slot["when_or_exams"].s]

\* the lines the loop body writes for one TA
TaBlock(db_, ta, show_hours, list_slots) ==
    IF Suppressed(db_, ta, show_hours) THEN <<>>
    ELSE <<TaLine(db_, ta, show_hours)>>
         \o (IF list_slots
             THEN [n \in DOMAIN db_.slots_by_ta[ta] |->
                      SlotLine(db_.slots_by_ta[ta][n])] \o <<BlankLine>>
             ELSE <<>>)

RECURSIVE TaBlocks(_, _, _, _)
TaBlocks(db_, ta_keys, show_hours, list_slots) ==
    IF ta_keys = <<>> THEN <<>>
    ELSE TaBlock(db_, Head(ta_keys), show_hours, list_slots)
         \o TaBlocks(db_, Tail(ta_keys), show_hours, list_slots)

\* tot_hours and tot_quota: summed over every TA of the loop
RECURSIVE SumOver(_, _)
SumOver(ta_keys, f) ==
    IF ta_keys = <<>> THEN 0 ELSE f[Head(ta_keys)] + SumOver(Tail(ta_keys), f)

report_slots_by_ta(db_, md) ==
    IF md \notin {"quota", "slots"}
    THEN Error("ValueError", "report_slots_by_ta")
    ELSE LET show_hours == (md = "quota")
             list_slots == (md = "slots")
         IN  List(<<HeaderLine>>
                  \o TaBlocks(db_, db_.ta_keys, show_hours, list_slots)
                  \o (IF show_hours
                      THEN <<BlankLine,
                             [kind |-> "total",
                              tot_hours |-> SumOver(db_.ta_keys, db_.hours_by_ta),
                              tot_quota |-> SumOver(db_.ta_keys,
                                  [ta \in DOMAIN db_.ta_info_by_ta |->
                                      db_.ta_info_by_ta[ta]["quota"].n])]>>
                      ELSE <<>>))

-----------------------------------------------------------------------------
(* Spec: process_database on a roster table and a slots table, then one    *)
(* report by TA.  The tables hold the records the readers return, with the *)
(* fields the processing and the report read.                              *)

\* most records in the roster table
MaxRoster == 2
\* most records in the slots table
MaxSlots == 2

TaRecord(last, first, quota) ==
    [k \in {"last", "first", "year", "netid", "quota", "key"} |->
        CASE k = "last" -> Str(last)
          [] k = "first" -> Str(first)
          [] k = "year" -> Str(<<"1">>)
          [] k = "netid" -> Str(<<"n">>)
          [] k = "quota" -> IntVal(quota)
          [] k = "key" -> Str(last \o <<":">> \o first)]

Quotas == {0, 2}

TaRecords ==
    {TaRecord(<<"a">>, first, quota) : first \in {<<"x">>, <<"y">>}, quota \in Quotas}

\* a slot of course P1 of one hour, or the no-hours slot of course P2
SlotRecordOf(ta, hours) ==
    LET course == IF hours = 0 THEN <<"P", "2">> ELSE <<"P", "1">>
    IN  [k \in {"course", "course_or_none", "section", "section_or_none",
                "title", "instructor", "role", "hours", "ta", "when_or_exams",
                "crn"} |->
            CASE k = "course" -> Str(course)
              [] k = "course_or_none" -> Str(course_or_none(course))
              [] k = "section" -> Str(<<"0", "1">>)
              [] k = "section_or_none" -> EmptyStr
              [] k = "title" -> Str(<<"a">>)
              [] k = "instructor" -> Str(<<"b">>)
              [] k = "role" -> Str(<<"e">>)
              [] k = "hours" -> IntVal(hours)
              [] k = "ta" -> Str(ta)
              [] k = "when_or_exams" -> EmptyStr
              [] k = "crn" -> Str(<<"1">>)]

\* a vacant slot, a TA named by last name, by "last:first", an unknown name
TaCells == {<<"?">>, <<"a">>, <<"a", ":", "x">>, <<"z">>}

SlotRecords == {SlotRecordOf(ta, hours) : ta \in TaCells, hours \in {0, 1}}

Modes == {"quota", "slots", "hours"}

Init ==
    /\ pc = "process_database"
    /\ roster_table \in {List(r) : r \in SeqsUpTo(TaRecords, MaxRoster)}
    /\ slots_table \in {List(sl) : sl \in SeqsUpTo(SlotRecords, MaxSlots)}
    /\ db = Unset /\ mode = "" /\ report = Unset /\ args = Unset
    /\ entry = Unset /\ replace_newlines = TRUE /\ cleaned = Unset
    /\ csv_rows = <<>> /\ skip = FALSE /\ restval = Unset /\ data = Unset

ProcessDatabase ==
    /\ pc = "process_database"
    /\ db' = process_database(roster_table.l, slots_table.l)
    /\ pc' = IF IsError(db') THEN "failed" ELSE "prepare_reports"
    /\ UNCHANGED <<args, entry, replace_newlines, cleaned, csv_rows, skip, restval,
                   data, roster_table, slots_table, mode, report>>

ReportSlotsByTa ==
    /\ pc = "prepare_reports"
    /\ \E md \in Modes :
          /\ mode' = md
          /\ report' = report_slots_by_ta(db, md)
    /\ pc' = "done"
    /\ UNCHANGED <<args, entry, replace_newlines, cleaned, csv_rows, skip, restval,
                   data, roster_table, slots_table, db>>

Next == ProcessDatabase \/ ReportSlotsByTa

Spec == Init /\ [][Next]_vars

-----------------------------------------------------------------------------
(* SpecIndex: index_roster on a roster table in which last names and full  *)
(* names may repeat                                                        *)

IndexTaRecords ==
    {TaRecord(last, first, 2) :
        last \in {<<"a">>, <<"b">>, <<"e">>},
        first \in {<<"x">>, <<"y">>, <<"z">>}}

InitIndex ==
    /\ pc = "index_roster"
    /\ roster_table \in {List(r) : r \in SeqsUpTo(IndexTaRecords, MaxRoster)}
    /\ slots_table = Unset
    /\ db = Unset /\ mode = "" /\ report = Unset /\ args = Unset
    /\ entry = Unset /\ replace_newlines = TRUE /\ cleaned = Unset
    /\ csv_rows = <<>> /\ skip = FALSE /\ restval = Unset /\ data = Unset

IndexRoster ==
    /\ pc = "index_roster"
    /\ db' = index_roster(roster_table.l)
    /\ pc' = "done"
    /\ UNCHANGED <<args, entry, replace_newlines, cleaned, csv_rows, skip, restval,
                   data, roster_table, slots_table, mode, report>>

NextIndex == IndexRoster

SpecIndex == InitIndex /\ [][NextIndex]_vars

\* whether roster record m bears the identifier as last name or as key
Bears(m, id) ==
    roster_table.l[m]["last"] = id \/ roster_table.l[m]["key"] = id

\* the last roster record to bear the identifier
LastBearer(id) ==
    CHOOSE m \in DOMAIN roster_table.l :
        Bears(m, id) /\ \A k \in DOMAIN roster_table.l : Bears(k, id) => k <= m

\* C2 (as claimed): for every roster record key_dict maps its last name and
\* its "last:first" key to its own canonical key, and ta_info_by_ta maps
\* that key to the record.
C2_EveryRecordReached ==
    pc = "done" =>
        \A n \in DOMAIN roster_table.l :
            LET record == roster_table.l[n]
            IN  /\ db.key_dict[record["last"]] = record["key"]
                /\ db.key_dict[record["key"]] = record["key"]
                /\ db.ta_info_by_ta[record["key"]] = record

\* C2 (amended): key_dict maps every record's last name and "last:first" key
\* to the canonical key of the last roster record bearing that identifier
\* (as last name or as key), and ta_info_by_ta maps every canonical key to
\* the last record with that key; so a record whose last name and key no
\* later record bears is reached by both.
C2_LastBearerReached ==
    pc = "done" =>
        \A n \in DOMAIN roster_table.l :
            LET record == roster_table.l[n]
                later(id) == \E m \in DOMAIN roster_table.l : m > n /\ Bears(m, id)
            IN  /\ \A id \in {record["last"], record["key"]} :
                      /\ id \in DOMAIN db.key_dict
                      /\ db.key_dict[id] = roster_table.l[LastBearer(id)]["key"]
                /\ record["key"] \in DOMAIN db.ta_info_by_ta
                /\ db.ta_info_by_ta[record["key"]]["key"] = record["key"]
                /\ (~later(record["last"]) /\ ~later(record["key"])) =>
                      /\ db.key_dict[record["last"]] = record["key"]
                      /\ db.key_dict[record["key"]] = record["key"]
                      /\ db.ta_info_by_ta[record["key"]] = record

\* two TAs of the same last name: the last name reaches the second, each
\* "last:first" key its own record
C2_Witness ==
    /\ pc = "done" /\ Len(roster_table.l) = 2
    /\ roster_table.l[1]["last"] = roster_table.l[2]["last"]
    /\ roster_table.l[1]["first"] # roster_table.l[2]["first"]
    /\ db.key_dict[roster_table.l[1]["last"]] = roster_table.l[2]["key"]
    /\ db.ta_info_by_ta[roster_table.l[1]["key"]] = roster_table.l[1]

-----------------------------------------------------------------------------
(* Claims on process_database and the report by TA (Spec) *)

RosterKeys == {roster_table.l[n]["key"] : n \in DOMAIN roster_table.l}

\* the accepted TA identifiers: every last name and every "last:first" key
KnownIdentifiers ==
    RosterKeys \cup {roster_table.l[n]["last"] : n \in DOMAIN roster_table.l}

\* the slots that name a TA: those whose ta value is not in the exclusion list
Filled(n) == slots_table.l[n]["ta"] \notin ta_exclusion_list

UnknownSlots ==
    {n \in DOMAIN slots_table.l :
        Filled(n) /\ slots_table.l[n]["ta"] \notin KnownIdentifiers}

\* the slots whose ta value resolves through key_dict to the key
SlotsOf(key) ==
    {n \in DOMAIN slots_table.l :
        /\ Filled(n)
        /\ slots_table.l[n]["ta"] \in DOMAIN db.key_dict
        /\ db.key_dict[slots_table.l[n]["ta"]] = key}

RECURSIVE HoursOfSlots(_)
HoursOfSlots(S) ==
    IF S = {} THEN 0
    ELSE LET n == CHOOSE n \in S : TRUE
         IN  slots_table.l[n]["hours"].n + HoursOfSlots(S \ {n})

Processed == pc \in {"prepare_reports", "done", "failed"}

\* C1: when every non-excluded ta value is a known identifier, tally_hours
\* returns a mapping whose keys are exactly the roster keys and whose value
\* for a key is the sum of the hours of the slots that resolve to it (0 for
\* a TA without such a slot).
C1_TallyIsSumOfResolvedSlots ==
    (Processed /\ UnknownSlots = {}) =>
        /\ ~IsError(db)
        /\ DOMAIN db.hours_by_ta = RosterKeys
        /\ \A key \in RosterKeys :
              db.hours_by_ta[key] = HoursOfSlots(SlotsOf(key))

\* two TAs of one last name and two slots of one hour, one naming its TA by
\* "last:first" and one by the shared last name
C1_Witness ==
    /\ Processed /\ ~IsError(db)
    /\ Cardinality(RosterKeys) = 2
    /\ \A n \in DOMAIN slots_table.l :
          Filled(n) /\ slots_table.l[n]["hours"].n = 1
    /\ \E n \in DOMAIN slots_table.l : slots_table.l[n]["ta"] \in RosterKeys
    /\ \E n \in DOMAIN slots_table.l : slots_table.l[n]["ta"] \notin RosterKeys
    /\ \E key \in RosterKeys : db.hours_by_ta[key] = 2
    /\ \E key \in RosterKeys : db.hours_by_ta[key] = 0

\* the first slot with an unrecognized TA identifier
FirstUnknownSlot ==
    slots_table.l[CHOOSE n \in UnknownSlots : \A m \in UnknownSlots : n <= m]

\* C3: when a slot's ta value is neither excluded nor a key of key_dict,
\* process_database fails with the ValueError of tally_hours naming that
\* identifier and its course, never with the KeyError of
\* collect_slots_by_ta, and returns no tally and no grouping.
C3_UnknownTaRaisesValueError ==
    (Processed /\ UnknownSlots # {}) =>
        /\ IsError(db)
        /\ db.kind = "ValueError" /\ db.where = "tally_hours"
        /\ db.ta = FirstUnknownSlot["ta"]
        /\ db.course = FirstUnknownSlot["course"]
        /\ pc = "failed" /\ report = Unset

\* a known TA's slot followed by a slot with an unknown name
C3_Witness ==
    /\ pc = "failed"
    /\ Len(slots_table.l) = 2
    /\ slots_table.l[1]["ta"] \in RosterKeys
    /\ slots_table.l[2]["ta"] = Str(<<"z">>)
    /\ db.kind = "ValueError"

\* the lines of the report that name a TA
IsTaLine(line) == line.kind = "ta"
TaLines == SelectSeq(report.l, IsTaLine)

\* the quota of a TA: that of the roster record ta_info_by_ta holds
QuotaOf(key) == db.ta_info_by_ta[key]["quota"].n

\* whether the claim has the TA left out of the report
Omitted(key) ==
    IF mode = "quota" THEN QuotaOf(key) = 0 /\ SlotsOf(key) = {}
    ELSE SlotsOf(key) = {}

Listed(key) == ~Omitted(key)

ListedKeys == SelectSeq(db.ta_keys, Listed)

Reported == pc = "done" /\ mode \in {"quota", "slots"}

\* C9: in the quota report every TA line carries the marker of its assigned
\* hours against its quota: "***" exactly when hours > quota, "=" exactly
\* when hours = quota, "." exactly when hours = quota - 1, none below.
C9_MarkerByHoursAndQuota ==
    (Reported /\ mode = "quota") =>
        /\ Len(TaLines) = Len(ListedKeys)
        /\ \A n \in DOMAIN TaLines :
              LET line == TaLines[n]
                  hours == HoursOfSlots(SlotsOf(ListedKeys[n]))
                  quota == QuotaOf(ListedKeys[n])
              IN  /\ line.hours = hours /\ line.quota = quota
                  /\ (line.marker = <<"*", "*", "*">>) <=> (hours > quota)
                  /\ (line.marker = <<"=">>) <=> (hours = quota)
                  /\ (line.marker = <<".">>) <=> (hours = quota - 1)
                  /\ (line.marker = <<>>) <=> (hours < quota - 1)

\* a quota report with a TA at a quota of 2 and a TA of no hours far below
C9_Witness ==
    /\ Reported /\ mode = "quota"
    /\ \E n \in DOMAIN TaLines :
          TaLines[n].marker = <<"=">> /\ TaLines[n].quota = 2
    /\ \E n \in DOMAIN TaLines : TaLines[n].marker = <<>>

\* a quota report with a TA over quota and a TA one hour below
C9_WitnessOver ==
    /\ Reported /\ mode = "quota"
    /\ \E n \in DOMAIN TaLines : TaLines[n].marker = <<"*", "*", "*">>
    /\ \E n \in DOMAIN TaLines : TaLines[n].marker = <<".">>

\* C10: the report leaves out a TA exactly when, in "quota" mode, the quota
\* is 0 and the TA has no assigned slot or, in "slots" mode, the TA has no
\* assigned slot; a TA whose only slots have 0 hours is listed.
C10_OmittedExactlyWhenUnassigned ==
    Reported =>
        /\ Len(TaLines) = Len(ListedKeys)
        /\ \A n \in DOMAIN TaLines :
              TaLines[n].fullname = FullName(db.ta_info_by_ta[ListedKeys[n]])

\* a roster of a TA of quota 0 whose only slot has no hours, listed, and a
\* TA of quota 0 without slot, left out
C10_Witness ==
    /\ Reported /\ mode = "quota"
    /\ Len(db.ta_keys) = 2 /\ Len(TaLines) = 1
    /\ \A n \in DOMAIN db.ta_keys : QuotaOf(db.ta_keys[n]) = 0
    /\ \A n \in DOMAIN slots_table.l : slots_table.l[n]["hours"].n = 0
    /\ TaLines[1].hours = 0 /\ TaLines[1].quota = 0

-----------------------------------------------------------------------------
(* process-ta-assignments.py: report of assignments by course              *)

role_width == 24

\* the name and netid of a slot line: fullname = "" / netid = "" / if ... elif
CourseSlotName(db_, slot) ==
    IF slot["ta"] \notin ta_exclusion_list
    THEN IF slot["ta"] \notin DOMAIN db_.key_dict
         THEN KeyError("report_slots_by_course")
         ELSE LET ta_record == db_.ta_info_by_ta[db_.key_dict[slot["ta"]]]
              IN  [t |-> "name", fullname |-> FullName(ta_record),
                   netid |-> FormatValue(ta_record["netid"])]
    ELSE IF slot["ta"] = Str(<<"?">>)
    THEN [t |-> "name", fullname |-> <<"?", "?", "?", "?", "?", "?", "?", "?">>,
          netid |-> <<>>]
    ELSE [t |-> "name", fullname |-> <<>>, netid |-> <<>>]

\* "{course_or_none} / {title} / {instructor}".format(**course_record)
CourseLine(course_record) ==
    [kind |-> "course",
     course_or_none |-> FormatValue(course_record["course_or_none"]),
     title |-> FormatValue(course_record["title"]),
     instructor |-> FormatValue(course_record["instructor"])]

\* the line of one slot; netid_field is the pair printed when show_netid
CourseSlotLine(slot, name, show_netid) ==
    [kind |-> "slot",
     course_or_none |-> slot["course_or_none"].s,
     section_or_none |-> slot["section_or_none"].s,
     short_role |-> truncate_string(slot["role"].s, role_width),
     hours |-> slot["hours"].n,
     fullname |-> name.fullname,
     netid_field |-> IF show_netid
                     THEN <<FormatValue(slot["crn"]), name.netid>> ELSE <<>>,
     when_or_exams |-> slot["when_or_exams"].s]

\* the lines of the slots of one course, a suppressed slot giving none
RECURSIVE CourseSlotLines(_, _, _)
CourseSlotLines(db_, slots, show_netid) ==
    IF slots = <<>> THEN <<>>
    ELSE (IF Head(slots)["ta"] \notin ta_suppression_list
          THEN <<CourseSlotLine(Head(slots), CourseSlotName(db_, Head(slots)),
                                show_netid)>>
          ELSE <<>>)
         \o CourseSlotLines(db_, Tail(slots), show_netid)

\* the lines the loop body writes for one course
CourseBlock(db_, course, show_netid) ==
    <<CourseLine(db_.slots_by_course[course][1])>>
    \o CourseSlotLines(db_, db_.slots_by_course[course], show_netid)
    \o <<BlankLine>>

RECURSIVE CourseBlocks(_, _, _)
CourseBlocks(db_, course_list, show_netid) ==
    IF course_list = <<>> THEN <<>>
    ELSE CourseBlock(db_, Head(course_list), show_netid)
         \o CourseBlocks(db_, Tail(course_list), show_netid)

\* every slot of the report in the order the loops meet them
RECURSIVE CourseSlots(_, _)
CourseSlots(db_, course_list) ==
    IF course_list = <<>> THEN <<>>
    ELSE db_.slots_by_course[Head(course_list)]
         \o CourseSlots(db_, Tail(course_list))

\* mutant: the TA is looked up before the exclusion list is consulted
report_slots_by_course_lookup_first(db_, show_netid) ==
    LET slots == CourseSlots(db_, db_.course_list)
        names == [n \in DOMAIN slots |->
                     IF slots[n]["ta"] \notin DOMAIN db_.key_dict
                     THEN KeyError("report_slots_by_course")
                     ELSE CourseSlotName(db_, slots[n])]
    IN  IF HasError(names) THEN FirstError(names)
        ELSE List(<<HeaderLine>> \o CourseBlocks(db_, db_.course_list, show_netid))

\* the report is the list of the lines written, or the exception of the
\* first TA lookup to fail
report_slots_by_course(db_, show_netid) ==
    LET slots == CourseSlots(db_, db_.course_list)
        names == [n \in DOMAIN slots |-> CourseSlotName(db_, slots[n])]
    IN  IF HasError(names) THEN FirstError(names)
        ELSE List(<<HeaderLine>> \o CourseBlocks(db_, db_.course_list, show_netid))

-----------------------------------------------------------------------------
(* SpecCourse: process_database on a roster table and a slots table of     *)
(* several courses, then one report by course.                             *)

CourseTaRecords == {TaRecord(<<"a">>, first, 2) : first \in {<<"x">>, <<"y">>}}

\* a course below the threshold, the threshold itself, a course above it
CourseNumbers == {<<"P", "1">>, course_none_threshold, <<"Q", "1">>}

\* a suppressed slot, an open slot, a cancelled slot, a blank slot, a TA named
\* by last name and one named by "last:first"
CourseTaCells == {<<".">>, <<"?">>, <<"X">>, <<>>, <<"a">>, <<"a", ":", "x">>}

\* a slot as read_slots returns it; the filled slots are those of section 01
CourseSlotRecordOf(course, ta) ==
    [k \in {"course", "course_or_none", "section", "section_or_none",
            "title", "instructor", "role", "hours", "ta", "when_or_exams",
            "crn"} |->
        CASE k = "course" -> Str(course)
          [] k = "course_or_none" -> Str(course_or_none(course))
          [] k = "section" ->
                IF Str(ta) \in ta_exclusion_list
                THEN Str(<<"0", "2">>) ELSE Str(<<"0", "1">>)
          [] k = "section_or_none" -> EmptyStr
          [] k = "title" -> Str(<<"a">>)
          [] k = "instructor" -> Str(<<"b">>)
          [] k = "role" -> Str(<<"e">>)
          [] k = "hours" -> IntVal(1)
          [] k = "ta" -> Str(ta)
          [] k = "when_or_exams" -> EmptyStr
          [] k = "crn" -> Str(<<"1">>)]

CourseSlotRecords ==
    {CourseSlotRecordOf(course, ta) : course \in CourseNumbers, ta \in CourseTaCells}

InitCourse ==
    /\ pc = "process_database"
    /\ roster_table \in {List(r) : r \in SeqsUpTo(CourseTaRecords, MaxRoster)}
    /\ slots_table \in {List(sl) : sl \in SeqsUpTo(CourseSlotRecords, MaxSlots)}
    /\ db = Unset /\ mode = "" /\ report = Unset /\ args = Unset
    /\ entry = Unset /\ replace_newlines = TRUE /\ cleaned = Unset
    /\ csv_rows = <<>> /\ skip = FALSE /\ restval = Unset /\ data = Unset

ReportSlotsByCourse ==
    /\ pc = "prepare_reports"
    /\ \E show_netid \in BOOLEAN :
          /\ mode' = IF show_netid THEN "netid" ELSE "course"
          /\ report' = report_slots_by_course(db, show_netid)
    /\ pc' = "done"
    /\ UNCHANGED <<args, entry, replace_newlines, cleaned, csv_rows, skip, restval,
                   data, roster_table, slots_table, db>>

NextCourse == ProcessDatabase \/ ReportSlotsByCourse

SpecCourse == InitCourse /\ [][NextCourse]_vars

\* the slot lines of the by-course report, in the order written
CourseReportSlotLines == SelectSeq(report.l, LAMBDA line : line.kind = "slot")

\* the slots of the table that are not suppressed, course by course
ListedCourseSlots ==
    SelectSeq(CourseSlots(db, db.course_list),
              LAMBDA slot : slot["ta"] # Str(<<".">>))

\* "Last, First (Year)" of the roster record the identifier resolves to
ResolvedName(id) ==
    LET record == roster_table.l[LastBearer(roster_table.l[LastBearer(id)]["key"])]
    IN  record["last"].s \o <<",", " ">> \o record["first"].s \o <<" ", "(">>
        \o record["year"].s \o <<")">>

\* the name the by-course report is to show for a ta value
ExpectedName(ta) ==
    IF ta = Str(<<"?">>) THEN <<"?", "?", "?", "?", "?", "?", "?", "?">>
    ELSE IF ta \in {Str(<<"X">>), EmptyStr} THEN <<>>
    ELSE ResolvedName(ta)

\* C11: the by-course report is written without a failed TA lookup; it has
\* one slot line for every slot whose ta value is not ".", in the order of
\* the courses and of the slots of each course, and none for a "." slot; the
\* line of a "?" slot shows the name "????????", the line of an "X" or empty
\* slot a blank name, and the line of every other slot "Last, First (Year)"
\* of the TA its value resolves to.
C11_NameByTaValue ==
    (pc = "done" /\ mode \in {"course", "netid"}) =>
        /\ ~IsError(report)
        /\ Len(CourseReportSlotLines) = Len(ListedCourseSlots)
        /\ Len(CourseReportSlotLines)
             = Cardinality({n \in DOMAIN slots_table.l :
                               slots_table.l[n]["ta"] # Str(<<".">>)})
        /\ \A n \in DOMAIN CourseReportSlotLines :
              CourseReportSlotLines[n].fullname
                 = ExpectedName(ListedCourseSlots[n]["ta"])

\* a course with a suppressed slot and a slot naming its TA by last name,
\* two TAs sharing that name: one slot line, with the later TA's name
C11_Witness ==
    /\ pc = "done" /\ mode = "course" /\ ~IsError(report)
    /\ Len(roster_table.l) = 2
    /\ \E n \in DOMAIN slots_table.l : slots_table.l[n]["ta"] = Str(<<".">>)
    /\ \E n \in DOMAIN slots_table.l : slots_table.l[n]["ta"] = Str(<<"a">>)
    /\ Len(CourseReportSlotLines) = 1
    /\ CourseReportSlotLines[1].fullname
         = <<"a", ",", " ">> \o roster_table.l[2]["first"].s \o <<" ", "(", "1", ")">>

\* an open slot and a cancelled slot: "????????" and a blank name
C11_WitnessOpen ==
    /\ pc = "done" /\ mode = "netid" /\ ~IsError(report)
    /\ \E n, m \in DOMAIN CourseReportSlotLines :
          /\ CourseReportSlotLines[n].fullname = <<"?", "?", "?", "?", "?", "?", "?", "?">>
          /\ CourseReportSlotLines[m].fullname = <<>>

\* the course lines of the by-course report, in the order written
CourseReportCourseLines == SelectSeq(report.l, LAMBDA line : line.kind = "course")

\* the course numbers of the slot table
SlotCourses == {slots_table.l[n]["course"] : n \in DOMAIN slots_table.l}

-----------------------------------------------------------------------------
(* SpecSection: read_slots on a slots file of one row, over the forms of   *)
(* its course_section cell.                                                *)

\* most characters in a course_section cell
MaxSectionLen == 5

SectionChars == {"P", "-", "*"}

InitSection ==
    /\ pc = "read_slots"
    /\ csv_rows \in {<<SlotsHeader, SubSeq(SlotsLine(c, <<"X">>, <<"1", "2">>), 1, 21)>> :
                        c \in SeqsUpTo(SectionChars, MaxSectionLen)}
    /\ roster_table = Unset /\ slots_table = Unset
    /\ entry = Unset /\ replace_newlines = TRUE /\ cleaned = Unset
    /\ skip = FALSE /\ restval = Unset /\ data = Unset
    /\ db = Unset /\ mode = "" /\ report = Unset /\ args = Unset

NextSection == ReadSlots

SpecSection == InitSection /\ [][NextSection]_vars

\* the positions of the hyphens of the string
Hyphens(s) == {i \in DOMAIN s : s[i] = "-"}

\* the least position of the set, or the position past the end of the string
LeastOr(S, s) == IF S = {} THEN Len(s) + 1 ELSE CHOOSE i \in S : \A j \in S : i <= j

\* the text before the first hyphen (all of the string when it has none)
BeforeFirstHyphen(s) == SubSeq(s, 1, LeastOr(Hyphens(s), s) - 1)

\* the text between the first hyphen and the second (or the end)
BetweenHyphens(s) ==
    LET first == LeastOr(Hyphens(s), s)
        second == LeastOr({i \in Hyphens(s) : i > first}, s)
    IN  SubSeq(s, first + 1, second - 1)

\* t is s without the asterisks that end it
WithoutTerminalStars(t, s) ==
    /\ t = <<>> \/ t[Len(t)] # "*"
    /\ Len(t) <= Len(s)
    /\ SubSeq(s, 1, Len(t)) = t
    /\ \A i \in (Len(t) + 1)..Len(s) : s[i] = "*"

\* C13: for every slot record read, course is the text of the course_section
\* field before its first hyphen, section is the text between the first and
\* the second hyphen without the asterisks that end it, and section is the
\* empty string when the field has no hyphen.
C13_CourseSectionSplit ==
    (pc = "done" /\ ~IsError(slots_table)) =>
        \A n \in DOMAIN slots_table.l :
            LET record == slots_table.l[n]
                field == record["course_section"].s
            IN  /\ record["course"] = Str(BeforeFirstHyphen(field))
                /\ WithoutTerminalStars(record["section"].s, BetweenHyphens(field))
                /\ Hyphens(field) = {} => record["section"] = EmptyStr

\* a field of two hyphens whose section ends in an asterisk
C13_Witness ==
    /\ pc = "done" /\ ~IsError(slots_table)
    /\ Len(slots_table.l) = 1
    /\ slots_table.l[1]["course_section"] = Str(<<"P", "-", "P", "*", "-">>)
    /\ slots_table.l[1]["course"] = Str(<<"P">>)
    /\ slots_table.l[1]["section"] = Str(<<"P">>)

-----------------------------------------------------------------------------
(* SpecTimeslot: compress_registrar_timeslot on a "when" cell made of      *)
(* slash-separated timeslots.                                              *)

\* most timeslots in a "when" cell
MaxTimeslots == 2

\* a timeslot in registrar form, one padded with spaces, "TBD" bare and
\* padded, a free-text timeslot, an empty one, one without its end time, and
\* a timeslot in registrar form followed by a remark
TimeslotTexts ==
    {<<"M", " ", "W", " ", "-", " ", "1", " ", "-", " ", "2">>,
     <<" ", "F", " ", "-", " ", "1", " ", "-", " ", "2", " ">>,
     <<"T", "B", "D">>,
     <<" ", "T", "B", "D", " ">>,
     <<"x">>,
     <<>>,
     <<"M", " ", "-", " ", "1">>,
     <<"M", " ", "-", " ", "1", " ", "-", " ", "2", " ", "x">>}

WhenCells ==
    {Join(parts, <<"/">>) :
        parts \in UNION {[1..k -> TimeslotTexts] : k \in 1..MaxTimeslots}}

InitTimeslot ==
    /\ pc = "compress_registrar_timeslot"
    /\ entry \in {Str(w) : w \in WhenCells}
    /\ cleaned = Unset
    /\ replace_newlines = TRUE /\ csv_rows = <<>> /\ skip = FALSE
    /\ restval = Unset /\ data = Unset /\ roster_table = Unset
    /\ slots_table = Unset /\ db = Unset /\ mode = "" /\ report = Unset /\ args = Unset

CompressRegistrarTimeslot ==
    /\ pc = "compress_registrar_timeslot"
    /\ cleaned' = Str(compress_registrar_timeslot(entry.s))
    /\ pc' = "done"
    /\ UNCHANGED <<args, entry, replace_newlines, csv_rows, skip, restval, data,
                   roster_table, slots_table, db, mode, report>>

NextTimeslot == CompressRegistrarTimeslot

SpecTimeslot == InitTimeslot /\ [][NextTimeslot]_vars

\* the timeslots of a cell: the texts its slashes separate, stripped
TimeslotsOf(s) ==
    LET parts == Split(s, "/") IN [n \in DOMAIN parts |-> Strip(parts[n])]

\* the string without its blanks
Unspaced(s) == SelectSeq(s, LAMBDA c : c # " ")

\* the string without its first hyphen
WithoutFirstHyphen(s) ==
    LET first == LeastOr(Hyphens(s), s)
    IN  SubSeq(s, 1, first - 1) \o SubSeq(s, first + 1, Len(s))

\* C14 (as claimed): the output has as many timeslots as the input; a
\* timeslot that is "TBD" or does not match the days-and-times pattern comes
\* out stripped and otherwise unchanged; of any other timeslot only blanks
\* and the hyphen between days and times are removed, every other character
\* kept in place.
C14_OnlySpacesRemoved ==
    pc = "done" =>
        LET given == TimeslotsOf(entry.s)
            result == TimeslotsOf(cleaned.s)
        IN  /\ Len(result) = Len(given)
            /\ cleaned.s = Join(result, <<" ", "/", " ">>)
            /\ \A n \in DOMAIN given :
                  IF given[n] = <<"T", "B", "D">> \/ ~TimeslotMatch(given[n]).ok
                  THEN result[n] = given[n]
                  ELSE Unspaced(result[n]) = WithoutFirstHyphen(Unspaced(given[n]))

\* the compressed cell of a timeslot in registrar form followed by a remark
C14_RemarkDropped ==
    /\ pc = "done"
    /\ entry = Str(<<"M", " ", "-", " ", "1", " ", "-", " ", "2", " ", "x">>)
    /\ cleaned = Str(<<"M", " ", "1", "-", "2">>)

-----------------------------------------------------------------------------
(* process-students.py: name processing                                    *)

\* the length of the word that opens the string
RECURSIVE WordLen(_)
WordLen(s) ==
    IF s = <<>> \/ s[1] \in Whitespace THEN 0 ELSE 1 + WordLen(Tail(s))

\* s.split(): the words that whitespace separates
RECURSIVE SplitWords(_)
SplitWords(s) ==
    LET t == LStrip(s)
    IN  IF t = <<>> THEN <<>>
        ELSE <<SubSeq(t, 1, WordLen(t))>>
             \o SplitWords(SubSeq(t, WordLen(t) + 1, Len(t)))

salutation_set == {<<"P", "r", "o", "f", ".">>}

\* "{}, {}".format(last, " ".join(given))
LastFirst(last, given) == last \o <<",", " ">> \o Join(given, <<" ">>)

\* mutant: the salutation is kept among the given names
regularize_name_keep_salutation(name) ==
    LET tokens == SplitWords(name)
    IN  IF Len(tokens) = 1 THEN Str(name)
        ELSE IF tokens = <<>> THEN Error("IndexError", "regularize_name")
        ELSE IF tokens[1][Len(tokens[1])] = "," THEN Str(Join(tokens, <<" ">>))
        ELSE Str(LastFirst(tokens[Len(tokens)],
                           SubSeq(tokens, 1, Len(tokens) - 1)))

\* regularize_name with the default salutation_set; tokens[0] of a name
\* without a word raises IndexError
regularize_name(name) ==
    LET tokens == SplitWords(name)
    IN  IF Len(tokens) = 1 THEN Str(name)
        ELSE IF tokens = <<>> THEN Error("IndexError", "regularize_name")
        ELSE IF tokens[1][Len(tokens[1])] = "," THEN Str(Join(tokens, <<" ">>))
        ELSE IF tokens[1] \in salutation_set
        THEN Str(LastFirst(tokens[Len(tokens)],
                           SubSeq(tokens, 2, Len(tokens) - 1)))
        ELSE Str(LastFirst(tokens[Len(tokens)],
                           SubSeq(tokens, 1, Len(tokens) - 1)))

-----------------------------------------------------------------------------
(* SpecName: regularize_name on a name in one of its accepted forms        *)

\* most middle names in a name
MaxMiddle == 1

NameWords == {<<"A">>, <<"B", "e">>}
SpecialNames == {<<"D", "G", "S">>, <<"A">>}
NameForms == {"first_last", "salutation", "last_first"}

\* the blanks between two words of a name as typed
WordGaps == {<<" ">>, <<" ", " ">>, <<"\t">>}

\* the name of the given words in the form, its words set apart by the gap
NameInForm(form, first, middle, last, gap) ==
    CASE form = "first_last" -> Join(<<first>> \o middle \o <<last>>, gap)
      [] form = "salutation" ->
            Join(<<<<"P", "r", "o", "f", ".">>, first>> \o middle \o <<last>>, gap)
      [] form = "last_first" ->
            Join(<<last \o <<",">>, first>> \o middle, gap)

AcceptedNames ==
    {NameInForm(form, first, middle, last, gap) :
        form \in NameForms, first \in NameWords,
        middle \in SeqsUpTo(NameWords, MaxMiddle), last \in NameWords,
        gap \in WordGaps}

InitName ==
    /\ pc = "regularize_name"
    /\ entry \in {Str(n) : n \in AcceptedNames \cup SpecialNames}
    /\ cleaned = Unset
    /\ replace_newlines = TRUE /\ csv_rows = <<>> /\ skip = FALSE
    /\ restval = Unset /\ data = Unset /\ roster_table = Unset
    /\ slots_table = Unset /\ db = Unset /\ mode = "" /\ report = Unset /\ args = Unset

RegularizeName ==
    /\ pc = "regularize_name"
    /\ cleaned' = regularize_name(entry.s)
    /\ pc' = "done"
    /\ UNCHANGED <<args, entry, replace_newlines, csv_rows, skip, restval, data,
                   roster_table, slots_table, db, mode, report>>

NextName == RegularizeName

SpecName == InitName /\ [][NextName]_vars

\* "Last, First [Middle]" with single blanks
LastNameFirst(first, middle, last) ==
    last \o <<",", " ">> \o first
    \o (IF middle = <<>> THEN <<>> ELSE <<" ">> \o Join(middle, <<" ">>))

\* C15: whichever accepted form a name is given in ("First [Middle] Last",
\* "Prof. First [Middle] Last" or "Last, First [Middle]", with any blanks
\* between its words), regularize_name returns "Last, First [Middle]" with
\* single blanks; a one-word special name is returned untouched.
C15_AcceptedFormsAgree ==
    pc = "done" =>
        /\ \A form \in NameForms, first \in NameWords, last \in NameWords,
              middle \in SeqsUpTo(NameWords, MaxMiddle), gap \in WordGaps :
              entry = Str(NameInForm(form, first, middle, last, gap))
                 => cleaned = Str(LastNameFirst(first, middle, last))
        /\ entry.s \in SpecialNames => cleaned = entry

\* "Prof. A  Be A" typed with double blanks becomes "A, A Be"
C15_Witness ==
    /\ pc = "done"
    /\ entry = Str(<<"P", "r", "o", "f", ".", " ", " ", "A", " ", " ",
                     "B", "e", " ", " ", "A">>)
    /\ cleaned = Str(<<"A", ",", " ", "A", " ", "B", "e">>)

-----------------------------------------------------------------------------
(* process-students.py: funding codes and status flags                     *)

TEACHING_STATUS_BY_FUNDING_CODE ==
    (<<"T", "A">> :> TRUE) @@
    (<<"T", "A", "-", "u", "n", "i", "v">> :> FALSE) @@
    (<<"R", "A">> :> FALSE) @@
    (<<"R", "A", "-", "e", "x", "t">> :> FALSE) @@
    (<<"R", "A", "-", "i", "n", "t", "e", "r", "n">> :> FALSE) @@
    (<<"R", "A", "-", "u", "n", "i", "v">> :> FALSE) @@
    (<<"F", "e", "l", "l", "o", "w", "-", "d", "e", "p", "t">> :> FALSE) @@
    (<<"F", "e", "l", "l", "o", "w", "-", "u", "n", "i", "v">> :> FALSE) @@
    (<<"F", "e", "l", "l", "o", "w", "-", "e", "x", "t">> :> FALSE) @@
    (<<"N", "S">> :> FALSE) @@
    (<<"G">> :> FALSE) @@
    (<<"F", "e", "l", "l", "o", "w">> :> FALSE) @@
    (<<"T", "A", "-", "N", "A">> :> FALSE) @@
    (<<"F", "e", "l", "l", "o", "w", "-", "r", "e", "m", "o", "t", "e">> :> FALSE) @@
    (<<"T", "A", "/", "R", "A">> :> TRUE) @@
    (<<"R", "A", "/", "F", "e", "l", "l", "o", "w", "-", "e", "x", "t">> :> FALSE)

\* mutant: a first token that is no funding code counts as no teaching duty
get_ta_status_flag_unknown_blank(funding_status) ==
    LET tokens == SplitWords(funding_status)
        base_status == IF Len(tokens) = 0 THEN <<>> ELSE tokens[1]
    IN  IF base_status \in DOMAIN TEACHING_STATUS_BY_FUNDING_CODE
           /\ TEACHING_STATUS_BY_FUNDING_CODE[base_status]
        THEN <<"*">> ELSE <<>>

get_ta_status_flag(funding_status) ==
    LET tokens == SplitWords(funding_status)
        base_status == IF Len(tokens) = 0 THEN <<>> ELSE tokens[1]
    IN  IF base_status \in DOMAIN TEACHING_STATUS_BY_FUNDING_CODE
        THEN IF TEACHING_STATUS_BY_FUNDING_CODE[base_status]
             THEN <<"*">> ELSE <<>>
        ELSE <<"?">>

-----------------------------------------------------------------------------
(* SpecFunding: get_ta_status_flag on a funding entry                      *)

\* most words that follow the first word of a funding entry
MaxFundingNotes == 1

\* first words that are no funding code: a code in lower case, a code with
\* a stray slash, a hybrid the table does not list, a note
UnrecognizedCodes ==
    {<<"t", "a">>, <<"T", "A", "/">>, <<"R", "A", "/", "T", "A">>, <<"x">>}

FundingNotes == {<<"T", "A">>, <<"x">>}

\* the entry of the words, as typed: any blanks before, single blanks between
FundingEntries ==
    {lead \o Join(words, <<" ">>) :
        lead \in {<<>>, <<" ">>},
        words \in UNION {{<<first>> \o notes :
                             notes \in SeqsUpTo(FundingNotes, MaxFundingNotes)} :
                         first \in DOMAIN TEACHING_STATUS_BY_FUNDING_CODE
                                   \cup UnrecognizedCodes}
                 \cup {<<>>}}

InitFunding ==
    /\ pc = "get_ta_status_flag"
    /\ entry \in {Str(e) : e \in FundingEntries}
    /\ cleaned = Unset
    /\ replace_newlines = TRUE /\ csv_rows = <<>> /\ skip = FALSE
    /\ restval = Unset /\ data = Unset /\ roster_table = Unset
    /\ slots_table = Unset /\ db = Unset /\ mode = "" /\ report = Unset /\ args = Unset

GetTaStatusFlag ==
    /\ pc = "get_ta_status_flag"
    /\ cleaned' = Str(get_ta_status_flag(entry.s))
    /\ pc' = "done"
    /\ UNCHANGED <<args, entry, replace_newlines, csv_rows, skip, restval, data,
                   roster_table, slots_table, db, mode, report>>

NextFunding == GetTaStatusFlag

SpecFunding == InitFunding /\ [][NextFunding]_vars

\* the funding codes with a teaching duty and those without
TeachingCodes == {<<"T", "A">>, <<"T", "A", "/", "R", "A">>}
NonTeachingCodes ==
    {<<"T", "A", "-", "u", "n", "i", "v">>,
     <<"R", "A">>,
     <<"R", "A", "-", "e", "x", "t">>,
     <<"R", "A", "-", "i", "n", "t", "e", "r", "n">>,
     <<"R", "A", "-", "u", "n", "i", "v">>,
     <<"F", "e", "l", "l", "o", "w", "-", "d", "e", "p", "t">>,
     <<"F", "e", "l", "l", "o", "w", "-", "u", "n", "i", "v">>,
     <<"F", "e", "l", "l", "o", "w", "-", "e", "x", "t">>,
     <<"N", "S">>,
     <<"G">>,
     <<"F", "e", "l", "l", "o", "w">>,
     <<"T", "A", "-", "N", "A">>,
     <<"F", "e", "l", "l", "o", "w", "-", "r", "e", "m", "o", "t", "e">>,
     <<"R", "A", "/", "F", "e", "l", "l", "o", "w", "-", "e", "x", "t">>}

\* the first whitespace-delimited token of the entry (none: the empty string)
FirstToken(s) ==
    LET t == LStrip(s)
        end == LeastOr({i \in DOMAIN t : t[i] \in Whitespace}, t)
    IN  SubSeq(t, 1, end - 1)

\* C16: the flag is "*" exactly when the first whitespace-delimited token of
\* the funding entry is "TA" or "TA/RA", "" exactly when that token is one
\* of the funding codes without teaching duty, and "?" for every other
\* entry.
C16_FlagByFirstToken ==
    pc = "done" =>
        /\ cleaned = Str(<<"*">>) <=> FirstToken(entry.s) \in TeachingCodes
        /\ cleaned = EmptyStr <=> FirstToken(entry.s) \in NonTeachingCodes
        /\ (FirstToken(entry.s) \notin TeachingCodes \cup NonTeachingCodes)
              => cleaned = Str(<<"?">>)

\* an entry whose first word is no code and whose second word is "TA"
C16_Witness ==
    /\ pc = "done"
    /\ entry = Str(<<"x", " ", "T", "A">>)
    /\ cleaned = Str(<<"?">>)

\* the hybrid code "TA/RA" carries a teaching duty
C16_WitnessHybrid ==
    /\ pc = "done"
    /\ entry = Str(<<" ", "T", "A", "/", "R", "A", " ", "x">>)
    /\ cleaned = Str(<<"*">>)

-----------------------------------------------------------------------------
(* process-students.py: database generation                                *)

StudentFieldNames ==
    <<"last", "first", "nickname",
      "gender", "advisor_composite", "committee1",
      "committee2", "committee3", "chair",
      "area", "theory_expt", "year",
      "program", "gre_phys", "candidacy_invited",
      "candidacy_invitation_date", "candidacy_written_date", "candidacy_oral_date",
      "defense_date", "funding_fall", "funding_spring",
      "ndid", "netid", "meeting_date_prior_year_4",
      "meeting_date_prior_year_3", "meeting_date_prior_year_2", "meeting_date_prior_year",
      "meeting_date", "experimental_proficiency">>

LowerLetters == <<"a", "b", "c", "d", "e", "f", "g", "h", "i", "j", "k", "l", "m">>
                \o <<"n", "o", "p", "q", "r", "s", "t", "u", "v", "w", "x", "y", "z">>
UpperLetters == <<"A", "B", "C", "D", "E", "F", "G", "H", "I", "J", "K", "L", "M">>
                \o <<"N", "O", "P", "Q", "R", "S", "T", "U", "V", "W", "X", "Y", "Z">>

\* s.lower() and s.upper()
Lower(s) ==
    [i \in DOMAIN s |->
        IF \E k \in 1..26 : UpperLetters[k] = s[i]
        THEN LowerLetters[CHOOSE k \in 1..26 : UpperLetters[k] = s[i]] ELSE s[i]]
Upper(s) ==
    [i \in DOMAIN s |->
        IF \E k \in 1..26 : LowerLetters[k] = s[i]
        THEN UpperLetters[CHOOSE k \in 1..26 : LowerLetters[k] = s[i]] ELSE s[i]]

\* s.split(sep) for a separator of several characters
RECURSIVE SplitOn(_, _)
SplitOn(s, sep) ==
    LET at(i) == SubSeq(s, i, i + Len(sep) - 1) = sep
        starts == {i \in 1..(Len(s) - Len(sep) + 1) : at(i)}
    IN  IF starts = {} THEN <<s>>
        ELSE LET i == CHOOSE i \in starts : \A j \in starts : i <= j
             IN  <<SubSeq(s, 1, i - 1)>>
                 \o SplitOn(SubSeq(s, i + Len(sep), Len(s)), sep)

\* list(map(str.strip, parts))
StripAll(parts) == [n \in DOMAIN parts |-> Strip(parts[n])]

short_advisor_width == 11
short_student_width == 23

\* the names of the advisor composite before they are regularized
AdvisorList(entry_) ==
    LET advisor_composite == Strip(entry_["advisor_composite"].s)
        advisor_split_slash == StripAll(Split(advisor_composite, "/"))
        advisor_split_and ==
            StripAll(SplitOn(advisor_composite, <<" ", "a", "n", "d", " ">>))
    IN  IF Len(advisor_split_slash) = 2 THEN advisor_split_slash
        ELSE IF Len(advisor_split_and) = 2 THEN advisor_split_and
        ELSE IF Len(advisor_composite) > 0 /\ advisor_composite # <<"D", "G", "S">>
        THEN <<entry_["advisor_composite"].s>>
        ELSE <<>>

\* the status code of the furthest candidacy step that has a date
CandidacyStatus(entry_) ==
    IF entry_["defense_date"] # EmptyStr THEN <<"D">>
    ELSE IF entry_["candidacy_oral_date"] # EmptyStr THEN <<"C">>
    ELSE IF entry_["candidacy_written_date"] # EmptyStr THEN <<"W">>
    ELSE IF entry_["candidacy_invitation_date"] # EmptyStr THEN <<"I">>
    ELSE <<" ">>

\* a Python set of strings
SetOf(S) == [t |-> "set", e |-> S]

\* the loop body of generate_database on one entry (an exception, if
\* regularize_name raises)
StudentRecord(entry_) ==
    LET raw == AdvisorList(entry_)
        advisor_list == [n \in DOMAIN raw |-> regularize_name(raw[n])]
        advisor == IF Len(advisor_list) >= 1 THEN advisor_list[1] ELSE EmptyStr
        coadvisor == IF Len(advisor_list) = 2 THEN advisor_list[2] ELSE EmptyStr
        short_advisor ==
            truncate_string(Split(advisor.s, ",")[1], short_advisor_width)
        short_coadvisor ==
            truncate_string(Split(coadvisor.s, ",")[1], short_advisor_width)
        netid == Lower(entry_["netid"].s)
        short_student ==
            truncate_string(entry_["last"].s \o <<",", " ">> \o entry_["first"].s,
                            short_student_width)
        named == {entry_[f] : f \in {"chair", "committee1", "committee2",
                                     "committee3"}} \ {EmptyStr}
        committee == {regularize_name(name.s) : name \in named}
        derived ==
            [k \in {"key", "netid", "advisor", "coadvisor", "short_advisor",
                    "short_coadvisor", "short_advisor_composite",
                    "short_student", "student_year_string",
                    "student_email_string", "committee", "candidacy_status"} |->
                CASE k = "key" ->
                        Str(entry_["last"].s \o <<":">> \o entry_["first"].s)
                  [] k = "netid" -> Str(netid)
                  [] k = "advisor" -> advisor
                  [] k = "coadvisor" -> coadvisor
                  [] k = "short_advisor" -> Str(short_advisor)
                  [] k = "short_coadvisor" -> Str(short_coadvisor)
                  [] k = "short_advisor_composite" ->
                        IF short_coadvisor # <<>>
                        THEN Str(short_advisor \o <<"/">> \o short_coadvisor)
                        ELSE Str(short_advisor)
                  [] k = "short_student" -> Str(short_student)
                  [] k = "student_year_string" ->
                        Str(short_student \o <<" ", "(">>
                            \o (IF entry_["program"] = EmptyStr
                                THEN entry_["year"].s ELSE entry_["program"].s)
                            \o <<")">>)
                  [] k = "student_email_string" ->
                        Str(entry_["first"].s \o <<" ">> \o entry_["last"].s
                            \o <<" ", "<">> \o netid
                            \o <<"@", "n", "d", ".", "e", "d", "u", ">">>)
                  [] k = "committee" -> SetOf(committee)
                  [] k = "candidacy_status" -> Str(CandidacyStatus(entry_))]
    IN  IF HasError(advisor_list) THEN FirstError(advisor_list)
        ELSE IF \E name \in committee : IsError(name)
        THEN CHOOSE name \in committee : IsError(name)
        ELSE derived @@ entry_

\* generate_database: the file read with skip=True and restval="", then the
\* postprocessing of every entry
generate_database(rows) ==
    LET database == read_spreadsheet_dictionary(rows, StudentFieldNames,
                                                TRUE, TRUE, EmptyStr)
        processed == [n \in DOMAIN database |-> StudentRecord(database[n])]
    IN  IF HasError(processed) THEN FirstError(processed) ELSE List(processed)

-----------------------------------------------------------------------------
(* process-students.py: report of advising responsibilities by student     *)

\* the tag of a faculty name in a student's listing
advising_role_str(name, entry_) ==
    IF name = entry_["advisor"]
    THEN <<"-", "-", " ", "A", "d", "v", "i", "s", "o", "r">>
    ELSE IF name = entry_["coadvisor"]
    THEN <<"-", "-", " ", "C", "o", "a", "d", "v", "i", "s", "o", "r">>
    ELSE IF name = entry_["chair"] THEN <<"*">>
    ELSE <<>>

\* entry.get("supplement_committee",set()): empty unless augment_committees ran
supplement_flag_str(name, entry_) ==
    IF "supplement_committee" \in DOMAIN entry_
       /\ name \in entry_["supplement_committee"].e
    THEN <<"#">> ELSE <<>>

\* a value of a sort key and the order of two of them
ValueLeq(a, b) == IF IsInt(a) THEN a.n <= b.n ELSE StrLeq(a.s, b.s)

\* a <= b for Python tuples of the same shape
RECURSIVE TupleLeq(_, _)
TupleLeq(a, b) ==
    IF a = <<>> THEN TRUE
    ELSE IF Head(a) = Head(b) THEN TupleLeq(Tail(a), Tail(b))
    ELSE ValueLeq(Head(a), Head(b))

\* sorted(keys)
RECURSIVE SortedKeys(_)
SortedKeys(K) ==
    IF K = {} THEN <<>>
    ELSE LET least == CHOOSE k \in K : \A other \in K : TupleLeq(k, other)
         IN  <<least>> \o SortedKeys(K \ {least})

\* float(entry["year"]) for a year written as a whole number
YearOf(entry_) == ParseInt(entry_["year"])

\* ordered_full_committee_name_list
OrderedFullCommittee(entry_) ==
    (IF entry_["advisor"] # EmptyStr THEN <<entry_["advisor"]>> ELSE <<>>)
    \o (IF entry_["coadvisor"] # EmptyStr THEN <<entry_["coadvisor"]>> ELSE <<>>)
    \o SortedStrings(entry_["committee"].e)

\* the multiline entry of one student
AdvisingEntryLines(entry_) ==
    LET names == OrderedFullCommittee(entry_)
    IN  [kind |-> "entry",
         student_year_string |-> entry_["student_year_string"].s,
         members |->
            [n \in DOMAIN names |->
                [supplement_flag_str |-> supplement_flag_str(names[n], entry_),
                 name |-> names[n].s,
                 advising_role_str |-> advising_role_str(names[n], entry_)]]]

\* tagged_lines after the loop: the last entry of a key keeps the key
AdvisingKey(entry_) == <<entry_["last"], entry_["first"], YearOf(entry_)>>

LastWithKey(database, key, KeyOf(_)) ==
    database[CHOOSE n \in DOMAIN database :
                /\ KeyOf(database[n]) = key
                /\ \A m \in DOMAIN database : KeyOf(database[m]) = key => m <= n]

\* the report: the header, then the entries in the order of their keys, each
\* followed by a blank line (ValueError, if a year is not a number)
report_advising_student(database) ==
    LET years == [n \in DOMAIN database |-> YearOf(database[n])]
        keys == SortedKeys({AdvisingKey(database[n]) : n \in DOMAIN database})
        Block(k) == <<AdvisingEntryLines(LastWithKey(database, keys[k], AdvisingKey)),
                      BlankLine>>
        RECURSIVE Blocks(_)
        Blocks(k) == IF k > Len(keys) THEN <<>> ELSE Block(k) \o Blocks(k + 1)
    IN  IF HasError(years) THEN FirstError(years)
        ELSE List(<<HeaderLine>> \o Blocks(1))

-----------------------------------------------------------------------------
(* SpecAdvising: generate_database on a student file, then the report of   *)
(* advising by student.  The students of a file bear different names.      *)

\* most students in the file
MaxAdvisees == 1

\* a line of the student file: the cells of StudentFieldNames in order
StudentsLine(last, first, year, advisor_composite, chair, committee1) ==
    <<last, first, <<>>, <<>>, advisor_composite, committee1, <<>>, <<>>,
      chair, <<"N", "S">>, <<"T">>, year, <<>>, <<>>, <<"N", "o">>, <<>>,
      <<>>, <<>>, <<>>, <<"T", "A">>, <<"R", "A">>, <<"1">>, <<"N">>,
      <<>>, <<>>, <<>>, <<>>, <<>>, <<>>>>

\* the file opens with its line of column headers
StudentsHeader == [i \in 1..29 |-> <<"H">>]

\* no advisor, the legacy code, one advisor in either form, two advisors set
\* apart by a slash or by "and", a slash with a name on one side only, and
\* three names
AdvisorComposites ==
    {<<>>, <<"D", "G", "S">>, <<"A", " ", "B">>, <<"B", ",", " ", "A">>,
     <<"A", " ", "B", "/", "C", " ", "D">>,
     <<"A", " ", "B", " ", "a", "n", "d", " ", "C", " ", "D">>,
     <<"A", " ", "B", "/">>, <<"/", "C", " ", "D">>,
     <<"A", " ", "B", "/", "C", " ", "D", "/", "E", " ", "F">>}

\* no chair, and the chair "C D" in the three forms of a name
ChairCells == {<<>>, <<"D", ",", " ", "C">>, <<"C", " ", "D">>,
               <<"P", "r", "o", "f", ".", " ", "C", " ", "D">>}

Committee1Cells == {<<>>, <<"F", ",", " ", "E">>}

\* the name of the student of the n-th line
AdviseeFirst(n) == [i \in 1..n |-> "x"]

AdvisingFiles ==
    UNION {{<<StudentsHeader>>
            \o [n \in 1..k |->
                   StudentsLine(<<"a">>, AdviseeFirst(n), <<"2">>,
                                cells[n][1], cells[n][2], cells[n][3])] :
               cells \in [1..k -> AdvisorComposites \X ChairCells \X Committee1Cells]} :
           k \in 0..MaxAdvisees}

InitAdvising ==
    /\ pc = "generate_database"
    /\ csv_rows \in AdvisingFiles
    /\ db = Unset /\ report = Unset /\ args = Unset /\ mode = ""
    /\ entry = Unset /\ replace_newlines = TRUE /\ cleaned = Unset
    /\ skip = TRUE /\ restval = EmptyStr /\ data = Unset
    /\ roster_table = Unset /\ slots_table = Unset

GenerateDatabase ==
    /\ pc = "generate_database"
    /\ db' = generate_database(csv_rows)
    /\ pc' = IF IsError(db') THEN "failed" ELSE "reports"
    /\ UNCHANGED <<args, entry, replace_newlines, cleaned, csv_rows, skip,
                   restval, data, roster_table, slots_table, mode, report>>

ReportAdvisingStudent ==
    /\ pc = "reports"
    /\ report' = report_advising_student(db.l)
    /\ pc' = "done"
    /\ UNCHANGED <<args, entry, replace_newlines, cleaned, csv_rows, skip,
                   restval, data, roster_table, slots_table, db, mode>>

NextAdvising == GenerateDatabase \/ ReportAdvisingStudent

SpecAdvising == InitAdvising /\ [][NextAdvising]_vars

\* the advisor_composite cell of the n-th student of the file
CompositeCell(n) == Strip(csv_rows[n + 1][5])

\* the name as stored: regularized, the empty string left empty
StoredName(name) == IF name = <<>> THEN EmptyStr ELSE regularize_name(name)

\* the two sides of a composite that has exactly one slash or, failing
\* that, exactly one " and "
CompositeSides(composite) ==
    IF Len(Split(composite, "/")) = 2 THEN StripAll(Split(composite, "/"))
    ELSE StripAll(SplitOn(composite, <<" ", "a", "n", "d", " ">>))

HasTwoSides(composite) ==
    \/ Len(Split(composite, "/")) = 2
    \/ Len(SplitOn(composite, <<" ", "a", "n", "d", " ">>)) = 2

\* C19 (as claimed): generate_database returns the database, and for every
\* student: a composite with exactly one "/" or exactly one " and " gives
\* advisor = first name and coadvisor = second name; any other non-empty
\* composite except "DGS" gives that advisor and an empty coadvisor; an
\* empty composite or "DGS" gives both empty; the names are stored
\* regularized; the coadvisor is not non-empty while the advisor is empty.
C19_AdvisorSplit ==
    pc \in {"reports", "done", "failed"} =>
        /\ ~IsError(db)
        /\ Len(db.l) = Len(csv_rows) - 1
        /\ \A n \in DOMAIN db.l :
              LET composite == CompositeCell(n)
                  advisor == db.l[n]["advisor"]
                  coadvisor == db.l[n]["coadvisor"]
              IN  /\ HasTwoSides(composite) =>
                        /\ advisor = StoredName(CompositeSides(composite)[1])
                        /\ coadvisor = StoredName(CompositeSides(composite)[2])
                  /\ (~HasTwoSides(composite) /\ composite # <<>>
                         /\ composite # <<"D", "G", "S">>) =>
                        /\ advisor = StoredName(composite)
                        /\ coadvisor = EmptyStr
                  /\ composite \in {<<>>, <<"D", "G", "S">>} =>
                        advisor = EmptyStr /\ coadvisor = EmptyStr
                  /\ ~(coadvisor # EmptyStr /\ advisor = EmptyStr)

\* the file whose student has the composite "A B/": regularize_name("")
\* raises IndexError and no database is returned
C19_EmptySideRaises ==
    /\ pc = "failed"
    /\ Len(csv_rows) = 2
    /\ CompositeCell(1) = <<"A", " ", "B", "/">>
    /\ db = Error("IndexError", "regularize_name")

\* the entry of the report for the n-th student of the database
AdvisingEntryOf(n) ==
    CHOOSE item \in Range(report.l) :
        /\ item.kind = "entry"
        /\ item.student_year_string = db.l[n]["student_year_string"].s

\* C17 (as claimed): in the listing by student, a committee member who is
\* the student's research committee chair, in whichever accepted form the
\* chair was entered, and who is neither the advisor nor the coadvisor, is
\* listed and tagged with "*".
C17_ChairTagged ==
    (pc = "done" /\ ~IsError(report)) =>
        \A n \in DOMAIN db.l :
            LET chair == Strip(csv_rows[n + 1][9])
                members == AdvisingEntryOf(n).members
            IN  (/\ chair # <<>>
                 /\ regularize_name(chair) \notin {db.l[n]["advisor"],
                                                   db.l[n]["coadvisor"]}) =>
                    /\ \E m \in DOMAIN members :
                          members[m].name = regularize_name(chair).s
                    /\ \A m \in DOMAIN members :
                          members[m].name = regularize_name(chair).s
                             => members[m].advising_role_str = <<"*">>

\* a chair entered as "C D" is listed as "D, C" without the tag
C17_ChairUntagged ==
    /\ pc = "done" /\ ~IsError(report)
    /\ Len(db.l) = 1
    /\ db.l[1]["chair"] = Str(<<"C", " ", "D">>)
    /\ db.l[1]["advisor"] = EmptyStr
    /\ AdvisingEntryOf(1).members
         = <<[supplement_flag_str |-> <<>>, name |-> <<"D", ",", " ", "C">>,
              advising_role_str |-> <<>>]>>

-----------------------------------------------------------------------------
(* spreadsheet.py: export functions                                        *)

\* str(n) for a natural number
RECURSIVE IntToStr(_)
IntToStr(n) ==
    LET digit == <<"0", "1", "2", "3", "4", "5", "6", "7", "8", "9">>[(n % 10) + 1]
    IN  IF n < 10 THEN <<digit>> ELSE IntToStr(n \div 10) \o <<digit>>

Blanks(n) == [i \in 1..n |-> " "]

\* format(value, spec) for a spec made of an optional width and an optional
\* "d": a number is set to the right, a string to the left, and "d" does not
\* take a string
format(value, spec) ==
    LET typed == spec # <<>> /\ spec[Len(spec)] = "d"
        width == DigitsValue(IF typed THEN SubSeq(spec, 1, Len(spec) - 1) ELSE spec)
        text == IF IsInt(value) THEN IntToStr(value.n) ELSE value.s
        fill == Blanks(IF width > Len(text) THEN width - Len(text) ELSE 0)
    IN  IF IsStr(value) /\ typed THEN Error("ValueError", "format")
        ELSE IF IsInt(value) THEN Str(fill \o text)
        ELSE Str(text \o fill)

\* itertools.zip_longest(row, format_spec, fillvalue=fillvalue)
zip_longest(row, format_spec, fillvalue) ==
    [j \in 1..(IF Len(row) > Len(format_spec) THEN Len(row) ELSE Len(format_spec)) |->
        <<IF j <= Len(row) THEN row[j] ELSE fillvalue,
          IF j <= Len(format_spec) THEN format_spec[j] ELSE fillvalue.s>>]

\* one row under a list format_spec: format_spec[-1] is evaluated first
FormatRow(row, format_spec) ==
    IF format_spec = <<>> THEN <<Error("IndexError", "write_table")>>
    ELSE LET pairs == zip_longest(row, format_spec,
                                  Str(format_spec[Len(format_spec)]))
         IN  [j \in DOMAIN pairs |-> format(pairs[j][1], pairs[j][2])]

\* the cell csv.writer writes for a value
WrittenCell(value) == IF IsInt(value) THEN IntToStr(value.n) ELSE value.s

\* the rows written to the file, or the exception raised
write_table(table, format_spec) ==
    LET formatted_data ==
            IF IsNone(format_spec) THEN table
            ELSE IF IsStr(format_spec)
            THEN [i \in DOMAIN table |->
                     [j \in DOMAIN table[i] |-> format(table[i][j], format_spec.s)]]
            ELSE [i \in DOMAIN table |-> FormatRow(table[i], format_spec.l)]
        errors == [i \in DOMAIN formatted_data |->
                      IF HasError(formatted_data[i])
                      THEN FirstError(formatted_data[i]) ELSE None]
    IN  IF ~(IsNone(format_spec) \/ IsStr(format_spec) \/ IsList(format_spec))
        THEN Error("ValueError", "format_spec")
        ELSE IF HasError(errors) THEN FirstError(errors)
        ELSE List([i \in DOMAIN formatted_data |->
                      [j \in DOMAIN formatted_data[i] |->
                          WrittenCell(formatted_data[i][j])]])

-----------------------------------------------------------------------------
(* SpecWrite: write_table on a table of numbers                            *)

\* most rows in the table
MaxTableRows == 2
\* most cells in a row
MaxRowLen == 2
\* most format descriptors in a list format_spec
MaxSpecLen == 2

TableCells == {IntVal(5), IntVal(12)}

\* a plain number, a width of two, a width of three, no descriptor
FormatDescriptors == {<<"d">>, <<"2">>, <<"3", "d">>, <<>>}

\* the rows of a table hold at least one cell
TableRows == UNION {[1..k -> TableCells] : k \in 1..MaxRowLen}

Tables == SeqsUpTo(TableRows, MaxTableRows)

FormatSpecs ==
    {None, Str(<<"2">>), IntVal(2)}
    \cup {List(l) : l \in UNION {[1..k -> FormatDescriptors] : k \in 1..MaxSpecLen}}

InitWrite ==
    /\ pc = "write_table"
    /\ data \in {List(table) : table \in Tables}
    /\ args \in {[format_spec |-> f] : f \in FormatSpecs}
    /\ report = Unset
    /\ entry = Unset /\ replace_newlines = TRUE /\ cleaned = Unset
    /\ csv_rows = <<>> /\ skip = FALSE /\ restval = Unset
    /\ roster_table = Unset /\ slots_table = Unset /\ db = Unset /\ mode = ""

WriteTable ==
    /\ pc = "write_table"
    /\ report' = write_table(data.l, args.format_spec)
    /\ pc' = "done"
    /\ UNCHANGED <<args, entry, replace_newlines, cleaned, csv_rows, skip,
                   restval, data, roster_table, slots_table, db, mode>>

NextWrite == WriteTable

SpecWrite == InitWrite /\ [][NextWrite]_vars

\* the descriptor of column j: format_spec[j], the last one beyond the list
DescriptorOf(format_spec, j) ==
    format_spec[IF j <= Len(format_spec) THEN j ELSE Len(format_spec)]

\* the number as the descriptor writes it: set to the right in the width
NumberAs(n, descriptor) ==
    LET text == IntToStr(n)
        width == CASE descriptor = <<"2">> -> 2
                   [] descriptor = <<"3", "d">> -> 3
                   [] OTHER -> 0
    IN  Blanks(IF width > Len(text) THEN width - Len(text) ELSE 0) \o text

\* C18 (as claimed): with a list format_spec, write_table writes one row
\* for every row of the table, with exactly as many cells as the row has,
\* cell j being the number formatted with format_spec[j], or with the last
\* descriptor for a column beyond the list.
C18_CellsFormattedByColumn ==
    (pc = "done" /\ IsList(args.format_spec)) =>
        /\ ~IsError(report)
        /\ Len(report.l) = Len(data.l)
        /\ \A i \in DOMAIN data.l :
              /\ Len(report.l[i]) = Len(data.l[i])
              /\ \A j \in DOMAIN data.l[i] :
                    report.l[i][j]
                       = NumberAs(data.l[i][j].n, DescriptorOf(args.format_spec.l, j))

\* a row of one cell under the list of two descriptors "d", "2": the row is
\* written with a second cell, the last descriptor as a text of width two
C18_ShortRowPadded ==
    /\ pc = "done"
    /\ data = List(<<<<IntVal(5)>>>>)
    /\ args.format_spec = List(<<<<"d">>, <<"2">>>>)
    /\ report = List(<<<<<<"5">>, <<"2", " ">>>>>>)

-----------------------------------------------------------------------------
(* process-students.py: student status report                              *)

area_name_by_area ==
    (<<"A", "s">> :> Str(<<"A", "s", "t", "r", "o", "p", "h", "y", "s", "i", "c", "s">>)) @@
    (<<"B", "P">> :> Str(<<"B", "i", "o", "p", "h", "y", "s", "i", "c", "s">>)) @@
    (<<"C", "M">> :> Str(<<"C", "o", "n", "d", "e", "n", "s", "e", "d", " ", "m", "a", "t", "t", "e", "r">>)) @@
    (<<"H", "E">> :> Str(<<"H", "i", "g", "h", " ", "e", "n", "e", "r", "g", "y">>)) @@
    (<<"N", "S">> :> Str(<<"N", "e", "t", "w", "o", "r", "k", " ", "s", "c", "i", "e", "n", "c", "e">>)) @@
    (<<"N", "U", "C">> :> Str(<<"N", "u", "c", "l", "e", "a", "r">>)) @@
    (<<>> :> None)

\* "{} {}".format(area_name,qualifier); KeyError for an unknown area code
area_description(area, theory_expt) ==
    LET qualifier ==
            IF area = <<"A", "s">> /\ theory_expt = <<"E", "x", "p", "e", "r", "i", "m", "e", "n", "t", "a", "l">>
            THEN <<"o", "b", "s", "e", "r", "v", "a", "t", "i", "o", "n">>
            ELSE IF theory_expt = <<"E", "x", "p", "e", "r", "i", "m", "e", "n", "t", "a", "l">>
            THEN <<"e", "x", "p", "e", "r", "i", "m", "e", "n", "t">>
            ELSE IF theory_expt = <<"T", "h", "e", "o", "r", "y">> THEN <<"t", "h", "e", "o", "r", "y">>
            ELSE <<>>
    IN  IF area \notin DOMAIN area_name_by_area
        THEN KeyError("area_description")
        ELSE Str(FormatValue(area_name_by_area[area]) \o <<" ">> \o qualifier)

\* float(entry["year"]) < start_year, start_year counted in halves of a year
BeforeStart(entry_, start_year_halves) == 2 * YearOf(entry_).n < start_year_halves

\* the key of an entry under the sorting
StatusKey(entry_, sorting) ==
    IF sorting = "year"
    THEN <<IntVal(0 - YearOf(entry_).n), Str(Upper(entry_["last"].s)),
           Str(Upper(entry_["first"].s))>>
    ELSE <<IF entry_["area"] # EmptyStr THEN entry_["area"] ELSE Str(<<"Z", "Z", "Z">>),
           entry_["theory_expt"], Str(Upper(entry_["advisor"].s)),
           IntVal(0 - YearOf(entry_).n), Str(Upper(entry_["last"].s)),
           Str(Upper(entry_["first"].s))>>

\* the line of an entry: the fields the format string prints for the options
StatusLine(entry_, options) ==
    [kind |-> "student",
     student_year_string |-> entry_["student_year_string"].s,
     candidacy_status |-> entry_["candidacy_status"].s,
     short_advisor_composite |-> entry_["short_advisor_composite"].s,
     area |-> IF "area" \in options
              THEN <<entry_["area"].s,
                     SubSeq(entry_["theory_expt"].s, 1,
                            IF Len(entry_["theory_expt"].s) > 0 THEN 1 ELSE 0)>>
              ELSE <<>>,
     funding |-> IF "funding" \in options
                 THEN <<get_ta_status_flag(entry_["funding_fall"].s),
                        entry_["funding_fall"].s,
                        get_ta_status_flag(entry_["funding_spring"].s),
                        entry_["funding_spring"].s>>
                 ELSE <<>>,
     meeting |-> IF "meeting" \in options
                 THEN <<entry_["meeting_date_prior_year_2"].s,
                        entry_["meeting_date_prior_year"].s,
                        entry_["meeting_date"].s>>
                 ELSE <<>>,
     email |-> IF "e-mail" \in options
               THEN entry_["student_email_string"].s ELSE <<>>]

\* the output loop from the k-th key on: the control break of the
\* group-advisor sorting, then the line of the key
RECURSIVE StatusOutput(_, _, _, _, _, _, _)
StatusOutput(included, keys, k, sorting, options, last_group, last_advisor) ==
    IF k > Len(keys) THEN <<>>
    ELSE LET entry_ == LastWithKey(included, keys[k], LAMBDA e : StatusKey(e, sorting))
             group == <<entry_["area"], entry_["theory_expt"]>>
             advisor == entry_["advisor"]
             break ==
                IF sorting # "group-advisor" THEN <<>>
                ELSE IF group # last_group
                THEN <<[kind |-> "group",
                        description |-> area_description(entry_["area"].s,
                                                         entry_["theory_expt"].s)]>>
                ELSE IF advisor # last_advisor THEN <<BlankLine>>
                ELSE <<>>
         IN  break \o <<StatusLine(entry_, options)>>
             \o StatusOutput(included, keys, k + 1, sorting, options, group, advisor)

\* the lines written, or the exception raised: ValueError for a year that
\* is no number, UnboundLocalError for an entry under an unknown sorting,
\* KeyError for an unknown area code
report_student_status(database, sorting, options, start_year_halves) ==
    LET years == [n \in DOMAIN database |-> YearOf(database[n])]
        included == SelectSeq(database,
                              LAMBDA e : ~BeforeStart(e, start_year_halves))
        keys == SortedKeys({StatusKey(included[n], sorting) : n \in DOMAIN included})
        lines == StatusOutput(included, keys, 1, sorting, options,
                              <<None, None>>, None)
        groups == SelectSeq(lines, LAMBDA line : line.kind = "group")
        descriptions == [n \in DOMAIN groups |-> groups[n].description]
    IN  IF HasError(years) THEN FirstError(years)
        ELSE IF sorting \notin {"year", "group-advisor"} /\ included # <<>>
        THEN Error("UnboundLocalError", "report_student_status")
        ELSE IF HasError(descriptions) THEN FirstError(descriptions)
        ELSE List(<<HeaderLine>> \o lines)

-----------------------------------------------------------------------------
(* SpecStatus: generate_database on a student file, then one student       *)
(* status report.                                                          *)

\* most students in the file
MaxStudents == 2

StudentLasts == {<<"a">>, <<"B">>}
StudentFirsts == {<<"x">>, <<"Y">>}
StudentYears == {<<"0">>, <<"1">>, <<"2">>}

StatusLines ==
    {StudentsLine(last, first, year, <<>>, <<>>, <<>>) :
        last \in StudentLasts, first \in StudentFirsts, year \in StudentYears}

\* the sortings of the report and the start years of the main program, in
\* halves of a year: 0 and 0.5
Sortings == {"year", "group-advisor"}
StartYearHalves == {0, 1}

InitStatus ==
    /\ pc = "generate_database"
    /\ csv_rows \in {<<StudentsHeader>> \o lines :
                        lines \in SeqsUpTo(StatusLines, MaxStudents)}
    /\ db = Unset /\ report = Unset /\ args = Unset /\ mode = ""
    /\ entry = Unset /\ replace_newlines = TRUE /\ cleaned = Unset
    /\ skip = TRUE /\ restval = EmptyStr /\ data = Unset
    /\ roster_table = Unset /\ slots_table = Unset

ReportStudentStatus ==
    /\ pc = "reports"
    /\ \E sorting \in Sortings, start_year_halves \in StartYearHalves :
          /\ args' = [sorting |-> sorting, options |-> {"area", "e-mail"},
                      start_year_halves |-> start_year_halves]
          /\ report' = report_student_status(db.l, sorting, {"area", "e-mail"},
                                             start_year_halves)
    /\ pc' = "done"
    /\ UNCHANGED <<entry, replace_newlines, cleaned, csv_rows, skip, restval,
                   data, roster_table, slots_table, db, mode>>

NextStatus == GenerateDatabase \/ ReportStudentStatus

SpecStatus == InitStatus /\ [][NextStatus]_vars

\* the student lines of the status report, in the order written
StudentLines == SelectSeq(report.l, LAMBDA line : line.kind = "student")

\* the students of the database at or after the start year
FromStartYear ==
    {n \in DOMAIN db.l : 2 * DigitsValue(db.l[n]["year"].s) >= args.start_year_halves}

\* the lines written for the n-th student of the database
LinesOf(n) ==
    {k \in DOMAIN StudentLines :
        StudentLines[k].student_year_string
           = db.l[n]["last"].s \o <<",", " ">> \o db.l[n]["first"].s
             \o <<" ", "(">> \o db.l[n]["year"].s \o <<")">>}

\* the student of a line: one whose name and year the line shows
StudentOf(k) == CHOOSE n \in DOMAIN db.l : k \in LinesOf(n)

\* the n-th student is not to come after the m-th: a later year first, then
\* the last names and then the first names without regard to case
OrderedBefore(n, m) ==
    LET year(i) == DigitsValue(db.l[i]["year"].s)
        last(i) == Upper(db.l[i]["last"].s)
        first(i) == Upper(db.l[i]["first"].s)
    IN  \/ year(n) > year(m)
        \/ year(n) = year(m) /\ StrLess(last(n), last(m))
        \/ year(n) = year(m) /\ last(n) = last(m) /\ StrLeq(first(n), first(m))

\* C20 (as claimed): report_student_status writes exactly one line for
\* every student whose year is at least start_year, as many lines as there
\* are such students, and none for the others; with sorting "year" the
\* lines are in order of decreasing year, then of last name and then of
\* first name without regard to case.
C20_OneLinePerStudentInOrder ==
    (pc = "done" /\ args # Unset) =>
        /\ ~IsError(report)
        /\ Len(StudentLines) = Cardinality(FromStartYear)
        /\ \A n \in DOMAIN db.l :
              IF n \in FromStartYear
              THEN LinesOf(n) # {} ELSE LinesOf(n) = {}
        /\ args.sorting = "year" =>
              \A k, j \in DOMAIN StudentLines :
                  k < j => OrderedBefore(StudentOf(k), StudentOf(j))

\* two students of the same name and year: the report has a single line
C20_NamesakesShareLine ==
    /\ pc = "done" /\ args # Unset /\ ~IsError(report)
    /\ args.sorting = "year"
    /\ Len(db.l) = 2
    /\ db.l[1]["key"] = db.l[2]["key"]
    /\ db.l[1]["year"] = Str(<<"2">>) /\ db.l[2]["year"] = Str(<<"2">>)
    /\ Len(StudentLines) = 1

-----------------------------------------------------------------------------
(* process-students.py: the faculty list and the advising tallies          *)

\* read_faculty: the lines of the faculty file, each regularized (an
\* exception, if regularize_name raises)
read_faculty(faculty_stream) ==
    LET faculty_list ==
            [n \in DOMAIN faculty_stream |-> regularize_name(faculty_stream[n])]
    IN  IF HasError(faculty_list) THEN FirstError(faculty_list)
        ELSE List(faculty_list)

\* d.get(key, default) on a dict
DictGet(d, key, default) == IF key \in DOMAIN d THEN d[key] ELSE default

\* d[key] = value on a dict
DictSet(d, key, value) ==
    [k \in DOMAIN d \cup {key} |-> IF k = key THEN value ELSE d[k]]

\* the loop body of tally_advising_assignments on one entry: the three
\* tallies after the entry
TallyEntry(tallies, entry_, count_defended) ==
    IF ~count_defended /\ entry_["candidacy_status"] = Str(<<"D">>)
    THEN tallies
    ELSE LET advisor_tally == tallies[1]
             coadvisor_tally == tallies[2]
             committee_tally == tallies[3]
             advisor == entry_["advisor"]
             coadvisor == entry_["coadvisor"]
             committee == entry_["committee"].e
         IN  <<DictSet(advisor_tally, advisor,
                       DictGet(advisor_tally, advisor, 0) + 1),
               IF coadvisor # EmptyStr
               THEN DictSet(coadvisor_tally, coadvisor,
                            DictGet(coadvisor_tally, coadvisor, 0) + 1)
               ELSE coadvisor_tally,
               [member \in DOMAIN committee_tally \cup committee |->
                   IF member \in committee
                   THEN DictGet(committee_tally, member, 0) + 1
                   ELSE committee_tally[member]]>>

\* the tallies with every member of base_set at zero
InitialTallies(base_set) ==
    LET zero == [member \in Range(base_set) |-> 0] IN <<zero, zero, zero>>

\* as tally_advising_assignments, with the defended students always counted
tally_advising_assignments_count_all(database, base_set, count_defended) ==
    LET after[n \in 0..Len(database)] ==
            IF n = 0 THEN InitialTallies(base_set)
            ELSE TallyEntry(after[n - 1], database[n], TRUE)
    IN  after[Len(database)]

\* tally_advising_assignments: (advisor_tally, coadvisor_tally,
\* committee_tally), each a dict from faculty name to count
tally_advising_assignments(database, base_set, count_defended) ==
    LET after[n \in 0..Len(database)] ==
            IF n = 0 THEN InitialTallies(base_set)
            ELSE TallyEntry(after[n - 1], database[n], count_defended)
    IN  after[Len(database)]

\* the committee of an entry with its advisor and coadvisor, where given
FullCommittee(entry_) ==
    entry_["committee"].e
        \cup ({entry_["advisor"], entry_["coadvisor"]} \ {EmptyStr})

\* the loop body of collect_advising_assignments on the n-th entry.  The
\* lists hold the entries themselves, here as their places in the database.
\* The advisors are added to a copy of the committee, so the entry keeps its
\* committee set.
CollectEntry(collected, n) ==
    LET advising_assignments == collected.advising_assignments
        full_committee == FullCommittee(collected.database[n])
    IN  [advising_assignments |->
            [member \in DOMAIN advising_assignments \cup full_committee |->
                IF member \in full_committee
                THEN Append(DictGet(advising_assignments, member, <<>>), n)
                ELSE advising_assignments[member]],
         database |-> collected.database]

\* every member of base_set with an empty list
InitialAssignments(base_set) == [member \in Range(base_set) |-> <<>>]

\* as collect_advising_assignments, with the committee set of the entry
\* aliased rather than copied
collect_advising_assignments_alias(database, base_set) ==
    LET after[n \in 0..Len(database)] ==
            IF n = 0
            THEN [advising_assignments |-> InitialAssignments(base_set),
                  database |-> database]
            ELSE LET collected == CollectEntry(after[n - 1], n)
                 IN  [collected EXCEPT
                        !.database[n]["committee"] =
                            SetOf(FullCommittee(database[n]))]
    IN  after[Len(database)]

\* collect_advising_assignments: the dict from faculty name to the list of
\* the member's students, and the database as the call leaves it
collect_advising_assignments(database, base_set) ==
    LET after[n \in 0..Len(database)] ==
            IF n = 0
            THEN [advising_assignments |-> InitialAssignments(base_set),
                  database |-> database]
            ELSE CollectEntry(after[n - 1], n)
    IN  after[Len(database)]

-----------------------------------------------------------------------------
(* SpecFaculty: generate_database on a student file, read_faculty on the   *)
(* faculty file, then the advising tallies or the advising assignments by   *)
(* faculty member.                                                         *)

\* most students in the file
MaxCounted == 2

\* no advisor, one advisor, and a coadvisor who is the advisor of others
FacultyAdvisorCells ==
    {<<>>, <<"A", " ", "B">>, <<"C", " ", "D", "/", "A", " ", "B">>}

\* no committee, and a committee of the chair "B, A" and the member "D, C",
\* who advise students as well: <<chair, committee1>>
FacultyCommitteeCells ==
    {<<<<>>, <<>>>>, <<<<"B", ",", " ", "A">>, <<"C", " ", "D">>>>}

\* no defense yet, and the date of the defense
DefenseDates == {<<>>, <<"d">>}

\* a line of the student file with its defense_date cell filled in
DefendedLine(first, advisor_composite, chair, committee1, defense_date) ==
    [StudentsLine(<<"a">>, first, <<"2">>, advisor_composite, chair,
                  committee1) EXCEPT ![19] = defense_date]

FacultyStudentFiles ==
    UNION {{<<StudentsHeader>>
            \o [n \in 1..k |->
                   DefendedLine(AdviseeFirst(n), cells[n][1], cells[n][2][1],
                                cells[n][2][2], cells[n][3])] :
               cells \in [1..k -> FacultyAdvisorCells \X FacultyCommitteeCells
                                  \X DefenseDates]} :
           k \in 0..MaxCounted}

\* the faculty file, one name to the line: one advising member, one member
\* without students before an advising member, and a blank line
FacultyFiles ==
    {<<<<"A", " ", "B", "\n">>>>,
     <<<<"H", ",", " ", "G", "\n">>, <<"A", " ", "B", "\n">>>>,
     <<<<"\n">>>>}

InitFaculty ==
    /\ pc = "generate_database"
    /\ csv_rows \in FacultyStudentFiles
    /\ data \in {List(faculty_stream) : faculty_stream \in FacultyFiles}
    /\ db = Unset /\ report = Unset /\ args = Unset /\ mode = ""
    /\ entry = Unset /\ replace_newlines = TRUE /\ cleaned = Unset
    /\ skip = TRUE /\ restval = EmptyStr
    /\ roster_table = Unset /\ slots_table = Unset

ReadFaculty ==
    /\ pc = "reports"
    /\ args = Unset
    /\ args' = [faculty_list |-> read_faculty(data.l)]
    /\ pc' = IF IsError(args'.faculty_list) THEN "failed" ELSE "reports"
    /\ UNCHANGED <<entry, replace_newlines, cleaned, csv_rows, skip, restval,
                   data, roster_table, slots_table, db, mode, report>>

TallyAdvisingAssignments ==
    /\ pc = "reports"
    /\ args # Unset
    /\ \E count_defended \in BOOLEAN :
          /\ args' = [faculty_list |-> args.faculty_list,
                      count_defended |-> count_defended]
          /\ report' = tally_advising_assignments(db.l, args.faculty_list.l,
                                                  count_defended)
    /\ pc' = "tallied"
    /\ UNCHANGED <<entry, replace_newlines, cleaned, csv_rows, skip, restval,
                   data, roster_table, slots_table, db, mode>>

CollectAdvisingAssignments ==
    /\ pc = "reports"
    /\ args # Unset
    /\ LET collected == collect_advising_assignments(db.l, args.faculty_list.l)
       IN  /\ report' = collected.advising_assignments
           /\ db' = List(collected.database)
    /\ pc' = "collected"
    /\ UNCHANGED <<args, entry, replace_newlines, cleaned, csv_rows, skip,
                   restval, data, roster_table, slots_table, mode>>

NextFaculty ==
    \/ GenerateDatabase
    \/ ReadFaculty
    \/ TallyAdvisingAssignments
    \/ CollectAdvisingAssignments

SpecFaculty == InitFaculty /\ [][NextFaculty]_vars

\* the students that the tallies count
Counted ==
    {n \in DOMAIN db.l :
        args.count_defended \/ db.l[n]["candidacy_status"] # Str(<<"D">>)}

\* the names of the base set and of every advisor, coadvisor and committee
\* member of the database
FacultyNames ==
    (Range(args.faculty_list.l)
        \cup UNION {{db.l[n]["advisor"], db.l[n]["coadvisor"]}
                        \cup db.l[n]["committee"].e : n \in DOMAIN db.l})
    \ {EmptyStr}

AdvisedBy(name) == {n \in Counted : db.l[n]["advisor"] = name}
CoadvisedBy(name) == {n \in Counted : db.l[n]["coadvisor"] = name}
OnCommitteeWith(name) == {n \in Counted : name \in db.l[n]["committee"].e}

\* C21: after tally_advising_assignments, for every faculty name the three
\* tallies give the number of counted students who have the name as advisor,
\* as coadvisor and as committee member (no entry standing for zero), where
\* a student of candidacy status "D" is counted only when count_defended is
\* true, and every member of base_set has an entry in each of the three
\* tallies.
C21_TalliesCountRoles ==
    pc = "tallied" =>
        /\ \A name \in FacultyNames :
              /\ DictGet(report[1], name, 0) = Cardinality(AdvisedBy(name))
              /\ DictGet(report[2], name, 0) = Cardinality(CoadvisedBy(name))
              /\ DictGet(report[3], name, 0) = Cardinality(OnCommitteeWith(name))
        /\ \A member \in Range(args.faculty_list.l) :
              /\ member \in DOMAIN report[1]
              /\ member \in DOMAIN report[2]
              /\ member \in DOMAIN report[3]

\* without count_defended, two students of advisor "B, A", the first of whom
\* has defended: the tally of "B, A" is one, and the member "H, G" of the
\* base set, who has no students, stands at zero in all three
C21_Witness ==
    /\ pc = "tallied"
    /\ ~args.count_defended
    /\ Len(db.l) = 2
    /\ db.l[1]["advisor"] = Str(<<"B", ",", " ", "A">>)
    /\ db.l[2]["advisor"] = Str(<<"B", ",", " ", "A">>)
    /\ db.l[1]["candidacy_status"] = Str(<<"D">>)
    /\ db.l[2]["candidacy_status"] # Str(<<"D">>)
    /\ report[1][Str(<<"B", ",", " ", "A">>)] = 1
    /\ Str(<<"H", ",", " ", "G">>) \in Range(args.faculty_list.l)
    /\ \A i \in 1..3 : report[i][Str(<<"H", ",", " ", "G">>)] = 0

\* with count_defended the defended student is counted: as advisor, as
\* coadvisor and on the committee
C21_WitnessDefended ==
    /\ pc = "tallied"
    /\ args.count_defended
    /\ \E n \in DOMAIN db.l :
          /\ db.l[n]["candidacy_status"] = Str(<<"D">>)
          /\ db.l[n]["coadvisor"] = Str(<<"B", ",", " ", "A">>)
          /\ Str(<<"B", ",", " ", "A">>) \in db.l[n]["committee"].e
    /\ report[2][Str(<<"B", ",", " ", "A">>)] = 2
    /\ report[3][Str(<<"B", ",", " ", "A">>)] = 2

\* the students listed under a name, by their places in the database
AssignedTo(name) == DictGet(report, name, <<>>)

\* how often the n-th student is listed under the name
TimesListed(name, n) ==
    Cardinality({i \in DOMAIN AssignedTo(name) : AssignedTo(name)[i] = n})

\* C22: after collect_advising_assignments, a student is listed under a
\* faculty name exactly when the name is the student's advisor, coadvisor or
\* a member of the student's committee, and then once only, whatever the
\* number of these roles; the lists are kept under faculty names only, every
\* member of base_set has a list, and the committee set of every student is
\* as generate_database made it.
C22_ListedOncePerMember ==
    pc = "collected" =>
        /\ \A name \in FacultyNames : \A n \in DOMAIN db.l :
              TimesListed(name, n) =
                 IF \/ name = db.l[n]["advisor"]
                    \/ name = db.l[n]["coadvisor"]
                    \/ name \in db.l[n]["committee"].e
                 THEN 1 ELSE 0
        /\ DOMAIN report \subseteq FacultyNames
        /\ \A member \in Range(args.faculty_list.l) : member \in DOMAIN report
        /\ \A n \in DOMAIN db.l :
              db.l[n]["committee"] = generate_database(csv_rows).l[n]["committee"]

\* the second student has the advisor "B, A", who chairs the committee as
\* well, and the committee member "D, C"; the first has the advisor "D, C",
\* the coadvisor "B, A" and no committee.  Both are listed once under either
\* name, the committee of the second is still the chair and "D, C", and the
\* member "H, G" of the base set has an empty list
C22_Witness ==
    /\ pc = "collected"
    /\ Len(db.l) = 2
    /\ db.l[2]["advisor"] = Str(<<"B", ",", " ", "A">>)
    /\ db.l[2]["chair"] = Str(<<"B", ",", " ", "A">>)
    /\ db.l[2]["committee"] =
          SetOf({Str(<<"B", ",", " ", "A">>), Str(<<"D", ",", " ", "C">>)})
    /\ db.l[1]["advisor"] = Str(<<"D", ",", " ", "C">>)
    /\ db.l[1]["coadvisor"] = Str(<<"B", ",", " ", "A">>)
    /\ db.l[1]["committee"] = SetOf({})
    /\ AssignedTo(Str(<<"B", ",", " ", "A">>)) = <<1, 2>>
    /\ AssignedTo(Str(<<"D", ",", " ", "C">>)) = <<1, 2>>
    /\ Str(<<"H", ",", " ", "G">>) \in DOMAIN report
    /\ AssignedTo(Str(<<"H", ",", " ", "G">>)) = <<>>

=============================================================================
